---------------------------- MODULE Spec2Model ----------------------------
(***************************************************************************)
(* Model of the per-agent AI brain of bf6-portal-bots-brain:               *)
(*   CoreAI_MemoryManager   (TTL blackboard)                               *)
(*   CoreAI_ASensor / CoreAI_AAction / CoreAI_ABehavior (throttled units)  *)
(*   CoreAI_TaskSelector    (utility arbitration)                          *)
(*   CoreAI_BehaviorController and CoreAI_Brain.OngoingPlayer (the tick)   *)
(*                                                                         *)
(* Time is the integer Date.now() stamps into memory.time.  JavaScript     *)
(* values are pairs <<tag, n>> so that null, false, true and references    *)
(* stay distinct values.                                                   *)
(***************************************************************************)
EXTENDS Integers, Sequences, FiniteSets, TLC

VARIABLES
    clock,      \* Date.now(): the host clock, never decreasing
    memory,     \* CoreAI_MemoryManager: [time, data, expirations]
    watch,      \* per key: the last set(k, non-empty, ttl > 0) still in force
    units,      \* throttle harness: the throttled units ticked side by side
    fired,      \* per throttled unit: its update() calls since the last reset
    calls,      \* what the last operation invoked, in order
    chosen,     \* TaskSelector harness: the last result of chooseNextBehavior
    profile,    \* CoreAI_TaskSelector.profile: the installed profile
    sensors,    \* CoreAI_Perception.sensors, in installation order
    current,    \* CoreAI_BehaviorController.current: the active instance
    nextId,     \* the identity the next constructed behavior instance gets
    life,       \* per behavior instance: where it is in its lifecycle
    pending     \* enter() sequences suspended in mod.Wait

vars == <<clock, memory, watch, units, fired, calls, chosen, profile,
          sensors, current, nextId, life, pending>>

---------------------------------------------------------------------------
(* Bounds of the model *)

MaxTime == 4        \* the clock runs over 0..MaxTime
MaxTtl == 2         \* ttl arguments of set() run over -1..MaxTtl and undefined
MaxInterval == 2    \* throttle intervals run over 0..MaxInterval
MaxEntries == 3     \* scoring tables of the selector harness: 0..MaxEntries rows
MaxScore == 1       \* their scores run over -1..MaxScore
MaxInst == 3        \* behavior instances one Brain constructs: 1..MaxInst
MaxClock == 2       \* the clock of the Brain runs over 0..MaxClock
MaxSensors == 5     \* sensor instances the Perception harness constructs
MaxPos == 8         \* the agent of the MoveTo harness stands at 0..MaxPos

---------------------------------------------------------------------------
(* JavaScript values *)

Null == <<"null", 0>>
False == <<"bool", 0>>
True == <<"bool", 1>>
PosV(x) == <<"pos", x>>
PlayerV(i) == <<"player", i>>
VehicleV(i) == <<"vehicle", i>>

Undefined == <<"undefined", 0>>
Num(n) == <<"number", n>>

\* if (v): null, undefined and false are falsy, every reference is truthy
Truthy(v) == v # Null /\ v # False /\ v # Undefined

\* !ttlMs || ttlMs <= 0
NoTtl(ttlMs) == ttlMs = Undefined \/ ttlMs[2] = 0 \/ ttlMs[2] <= 0

---------------------------------------------------------------------------
(* CoreAI_MemoryManager *)

Keys == {"closestEnemy", "vehicleToDrive", "isInBattle", "roamPos",
         "arrivedPos", "capturePoint"}

InitialData ==
    [k \in Keys |-> IF k = "isInBattle" THEN False ELSE Null]

NoExpirations == [k \in {} |-> 0]

NewMemory == [time |-> 0, data |-> InitialData, expirations |-> NoExpirations]

MapDelete(map, key) == [k \in (DOMAIN map) \ {key} |-> map[k]]

MapSet(map, key, val) ==
    [k \in (DOMAIN map) \cup {key} |-> IF k = key THEN val ELSE map[k]]

\* set() that only records expiries: an empty value or a ttl <= 0 leaves
\* the expiry of an earlier set in place
Memory_set_keep_expiry(m, key, value, ttlMs) ==
    LET d == [m.data EXCEPT ![key] = value]
    IN  IF value = Null \/ value = Undefined \/ NoTtl(ttlMs)
        THEN [m EXCEPT !.data = d]
        ELSE [m EXCEPT !.data = d,
                       !.expirations =
                           MapSet(m.expirations, key, m.time + ttlMs[2])]

Memory_set(m, key, value, ttlMs) ==
    LET d == [m.data EXCEPT ![key] = value]
    IN  IF value = Null \/ value = Undefined \/ NoTtl(ttlMs)
        THEN [m EXCEPT !.data = d,
                       !.expirations = MapDelete(m.expirations, key)]
        ELSE [m EXCEPT !.data = d,
                       !.expirations =
                           MapSet(m.expirations, key, m.time + ttlMs[2])]

Memory_get(m, key) == m.data[key]

Memory_has(m, key) ==
    LET v == m.data[key]
    IN  v # Null /\ v # False /\ v # Undefined

Memory_clear(m, key) ==
    [m EXCEPT !.data = [m.data EXCEPT ![key] = Null],
              !.expirations = MapDelete(m.expirations, key)]

Memory_expiresAt(m, key) ==
    IF key \in DOMAIN m.expirations THEN m.expirations[key] ELSE 0

\* getTimeRemaining() without the clamp at 0
Memory_getTimeRemaining_unclamped(m, key) ==
    IF key \notin DOMAIN m.expirations
    THEN 0
    ELSE m.expirations[key] - m.time

Memory_getTimeRemaining(m, key) ==
    IF key \notin DOMAIN m.expirations
    THEN 0
    ELSE LET rem == m.expirations[key] - m.time
         IN  IF rem > 0 THEN rem ELSE 0

\* the keys prune() finds expired
Expired(m) == {k \in DOMAIN m.expirations : m.time >= m.expirations[k]}

\* prune() with "now > exp": a key is kept at the very instant it expires
Memory_prune_late(m) ==
    LET gone == {k \in DOMAIN m.expirations : m.time > m.expirations[k]}
    IN  [m EXCEPT !.data = [k \in Keys |->
                                IF k \in gone THEN Null ELSE m.data[k]],
                  !.expirations =
                      [k \in (DOMAIN m.expirations) \ gone |->
                          m.expirations[k]]]

Memory_prune(m) ==
    LET gone == Expired(m)
    IN  [m EXCEPT !.data = [k \in Keys |->
                                IF k \in gone THEN Null ELSE m.data[k]],
                  !.expirations =
                      [k \in (DOMAIN m.expirations) \ gone |->
                          m.expirations[k]]]

Memory_reset(m) == NewMemory

---------------------------------------------------------------------------
(* The memory API driven directly: set, clear, prune, reset, and the      *)
(* Brain's stamp memory.time = Date.now()                                 *)

SetKeys == {"isInBattle", "roamPos"}

ValuesOf(k) == IF k = "isInBattle" THEN {False, True} ELSE {Null, PosV(1)}

TtlArgs == {Undefined} \cup {Num(n) : n \in -1 .. MaxTtl}

Unwatched == [on |-> FALSE, at |-> 0, ttl |-> 0, kept |-> FALSE, due |-> FALSE]

\* the harness state of the specifications that do not use a variable
IdleRest ==
    /\ units = <<>> /\ fired = <<>> /\ calls = <<>> /\ chosen = <<>>
    /\ profile = "none" /\ sensors = <<>> /\ current = <<>> /\ nextId = 0
    /\ life = <<>> /\ pending = <<>>

\* the record of the last call of the memory API: its arguments, whether
\* the key had a recorded expiry when the call was made, and what it returned
MemCall(op, key, value, ttl, had, ret) ==
    <<[op |-> op, key |-> key, value |-> value, ttl |-> ttl, had |-> had,
       ret |-> ret]>>

MemRest ==
    UNCHANGED <<units, fired, chosen, profile, sensors, current, nextId,
                life, pending>>

InitMemory ==
    /\ clock = 0
    /\ memory = NewMemory
    /\ watch = [k \in SetKeys |-> Unwatched]
    /\ IdleRest

MemStamp ==
    \E t \in clock .. MaxTime :
        /\ clock' = t
        /\ memory' = [memory EXCEPT !.time = t]
        /\ UNCHANGED watch
        /\ calls' = MemCall("stamp", "", Null, Num(t), FALSE, 0)
        /\ MemRest

MemSet ==
    \E k \in SetKeys : \E v \in ValuesOf(k), ttl \in TtlArgs :
        /\ memory' = Memory_set(memory, k, v, ttl)
        /\ watch' = [watch EXCEPT ![k] =
                        IF Truthy(v) /\ ttl # Undefined /\ ttl[2] > 0
                        THEN [on |-> TRUE, at |-> memory.time, ttl |-> ttl[2],
                              kept |-> FALSE, due |-> FALSE]
                        ELSE Unwatched]
        /\ calls' = MemCall("set", k, v, ttl,
                             k \in DOMAIN memory.expirations, 0)
        /\ UNCHANGED clock
        /\ MemRest

MemClear ==
    \E k \in SetKeys :
        /\ memory' = Memory_clear(memory, k)
        /\ watch' = [watch EXCEPT ![k] = Unwatched]
        /\ calls' = MemCall("clear", k, Null, Undefined,
                             k \in DOMAIN memory.expirations, 0)
        /\ UNCHANGED clock
        /\ MemRest

MemPrune ==
    /\ memory' = Memory_prune(memory)
    /\ watch' = [k \in SetKeys |->
                    IF ~watch[k].on THEN watch[k]
                    ELSE IF memory.time >= watch[k].at + watch[k].ttl
                         THEN [watch[k] EXCEPT !.due = TRUE]
                         ELSE [watch[k] EXCEPT !.kept = TRUE]]
    /\ calls' = MemCall("prune", "", Null, Undefined, Expired(memory) # {}, 0)
    /\ UNCHANGED clock
    /\ MemRest

MemReset ==
    /\ memory' = Memory_reset(memory)
    /\ watch' = [k \in SetKeys |-> Unwatched]
    /\ calls' = MemCall("reset", "", Null, Undefined,
                         DOMAIN memory.expirations # {}, 0)
    /\ UNCHANGED clock
    /\ MemRest

MemGetTimeRemaining ==
    \E k \in SetKeys :
        /\ calls' = MemCall("getTimeRemaining", k, Null, Undefined,
                             k \in DOMAIN memory.expirations,
                             Memory_getTimeRemaining(memory, k))
        /\ UNCHANGED <<clock, memory, watch>>
        /\ MemRest

NextMemory ==
    \/ MemStamp \/ MemSet \/ MemClear \/ MemPrune \/ MemReset
    \/ MemGetTimeRemaining

SpecMemory == InitMemory /\ [][NextMemory]_vars

\* C1: a key set with a non-empty value and ttl > 0 at time t, and not
\* touched since by set, clear or reset, stays present through every prune()
\* made while time < t + ttl; once a prune() has run at a time >= t + ttl the
\* key is empty with no recorded expiry, and stays so through later prunes.
C1_TtlInvariant ==
    \A k \in SetKeys :
        watch[k].on =>
            IF watch[k].due
            THEN /\ ~Memory_has(memory, k)
                 /\ k \notin DOMAIN memory.expirations
                 /\ Memory_expiresAt(memory, k) = 0
            ELSE /\ Memory_has(memory, k)
                 /\ memory.expirations[k] = watch[k].at + watch[k].ttl

\* a key that survived an early prune and was then cleared by a due one
C1_Witness ==
    \E k \in SetKeys : watch[k].on /\ watch[k].kept /\ watch[k].due

LastCall == calls[1]

WasCalled(op) == Len(calls) = 1 /\ LastCall.op = op

\* the empty value of a key: null, and false for the boolean isInBattle
EmptyOf(k) == IF k = "isInBattle" THEN False ELSE Null

C15_BooleanEmptyIsFalse ==
    /\ \A k \in Keys :
          memory.data[k] \in ValuesOf(k) \cup {EmptyOf(k)}
    /\ memory.data["isInBattle"] \in {False, True}

Max0(n) == IF n > 0 THEN n ELSE 0

\* C16: getTimeRemaining(k) returns max(0, expiry(k) - time) when k has a
\* recorded expiry and 0 when it has none; from one call of the memory API
\* to the next its value does not increase unless the call is a set on k.
C16_TimeRemaining ==
    [][/\ (Len(calls') = 1 /\ calls'[1].op = "getTimeRemaining") =>
             calls'[1].ret =
                 IF calls'[1].key \in DOMAIN memory.expirations
                 THEN Max0(memory.expirations[calls'[1].key] - memory.time)
                 ELSE 0
       /\ \A k \in SetKeys :
             ~(Len(calls') = 1 /\ calls'[1].op = "set" /\ calls'[1].key = k)
             => Memory_getTimeRemaining(memory', k)
                    <= Memory_getTimeRemaining(memory, k)]_vars

\* getTimeRemaining answered 0 for a key whose expiry has passed and that
\* no prune() has cleared yet
C16_Witness ==
    /\ WasCalled("getTimeRemaining") /\ LastCall.had /\ LastCall.ret = 0
    /\ memory.expirations[LastCall.key] < memory.time

---------------------------------------------------------------------------
(* Throttling: CoreAI_ASensor.tick, CoreAI_AAction.tick,                  *)
(* CoreAI_ABehavior.tick.  Each returns the unit after the tick and       *)
(* whether update() was invoked.                                          *)

\* ASensor.tick with "<=": a sensor is still throttled at exactly last + rate
ASensor_tick_off_by_one(s, now, valid) ==
    IF now - s.last <= s.interval
    THEN [unit |-> s, update |-> FALSE]
    ELSE IF ~valid
         THEN [unit |-> s, update |-> FALSE]
         ELSE [unit |-> [s EXCEPT !.last = now], update |-> TRUE]

ASensor_tick(s, now, valid) ==
    IF now - s.last < s.interval
    THEN [unit |-> s, update |-> FALSE]
    ELSE IF ~valid
         THEN [unit |-> s, update |-> FALSE]
         ELSE [unit |-> [s EXCEPT !.last = now], update |-> TRUE]

ASensor_reset(s) == [s EXCEPT !.last = 0]

AAction_tick(a, now) ==
    IF a.interval > 0 /\ now - a.last < a.interval
    THEN [unit |-> a, update |-> FALSE]
    ELSE [unit |-> [a EXCEPT !.last = now], update |-> TRUE]

AAction_reset(a) == [a EXCEPT !.last = 0]

ABehavior_tick(b, now) ==
    IF b.interval > 0
    THEN IF now - b.last < b.interval
         THEN [unit |-> b, update |-> FALSE]
         ELSE [unit |-> [b EXCEPT !.last = now], update |-> TRUE]
    ELSE [unit |-> b, update |-> TRUE]

---------------------------------------------------------------------------
(* The throttle harness: one unit of each kind, ticked by a host that     *)
(* stamps a never-decreasing time, with an agent that may be invalid      *)

UnitKinds == {"sensor", "action", "behavior"}

NewUnit(i) == [interval |-> i, last |-> 0]

NeverFired == [n |-> 0, at |-> 0, refused |-> FALSE, exact |-> FALSE]

UnitTick(kind, u, now, valid) ==
    CASE kind = "sensor" -> ASensor_tick(u, now, valid)
      [] kind = "action" -> AAction_tick(u, now)
      [] kind = "behavior" -> ABehavior_tick(u, now)

\* the log of one tick of unit kind: the tick, then update() if invoked
TickLog(kind, now, valid, update) ==
    <<[op |-> "tick", unit |-> kind, time |-> now, valid |-> valid]>>
    \o (IF update THEN <<[op |-> "update", unit |-> kind, time |-> now,
                           valid |-> valid]>>
        ELSE <<>>)

Invoked(log, kind) == \E i \in 1 .. Len(log) :
                          log[i].op = "update" /\ log[i].unit = kind

Ticked(log, kind) == \E i \in 1 .. Len(log) :
                         log[i].op = "tick" /\ log[i].unit = kind

TickValid(log) == \A i \in 1 .. Len(log) : log[i].valid

InitThrottle ==
    /\ clock = 0
    /\ \E k \in UnitKinds : \E i \in 0 .. MaxInterval :
           /\ units = [x \in {k} |-> NewUnit(i)]
           /\ fired = [x \in {k} |-> NeverFired]
    /\ calls = <<>>
    /\ memory = NewMemory /\ watch = <<>> /\ chosen = <<>>
    /\ profile = "none" /\ sensors = <<>> /\ current = <<>> /\ nextId = 0
    /\ life = <<>> /\ pending = <<>>

ThrottleRest ==
    UNCHANGED <<memory, watch, chosen, profile, sensors, current, nextId,
                life, pending>>

ThrTick ==
    \E t \in clock .. MaxTime, valid \in BOOLEAN :
        LET r == [k \in DOMAIN units |-> UnitTick(k, units[k], t, valid)]
        IN  /\ clock' = t
            /\ units' = [k \in DOMAIN units |-> r[k].unit]
            /\ fired' = [k \in DOMAIN units |->
                  IF r[k].update
                  THEN [n |-> IF fired[k].n < 2 THEN fired[k].n + 1 ELSE 2,
                        at |-> t,
                        refused |-> FALSE,
                        exact |-> /\ fired[k].n > 0
                                  /\ fired[k].refused
                                  /\ t = fired[k].at + units[k].interval]
                  ELSE [fired[k] EXCEPT !.refused = TRUE]]
            /\ calls' = IF "sensor" \in DOMAIN units
                           THEN TickLog("sensor", t, valid, r["sensor"].update)
                         ELSE IF "action" \in DOMAIN units
                           THEN TickLog("action", t, valid, r["action"].update)
                         ELSE TickLog("behavior", t, valid,
                                      r["behavior"].update)
            /\ ThrottleRest

ThrReset ==
    /\ DOMAIN units \subseteq {"sensor", "action"}
    /\ units' = [k \in DOMAIN units |->
                    IF k = "sensor" THEN ASensor_reset(units[k])
                    ELSE AAction_reset(units[k])]
    /\ fired' = [k \in DOMAIN units |-> NeverFired]
    /\ calls' = <<>>
    /\ UNCHANGED clock
    /\ ThrottleRest

NextThrottle == ThrTick \/ ThrReset

SpecThrottle == InitThrottle /\ [][NextThrottle]_vars

\* C2: a unit with interval I > 0 whose update() last ran at t0 (since its
\* last reset) does not run update() on a tick at a time before t0 + I, and
\* does run it on a tick at exactly t0 + I while the agent is valid.
C2_Throttle ==
    [][\A k \in DOMAIN units :
          (units[k].interval > 0 /\ fired[k].n > 0 /\ Ticked(calls', k))
          => /\ Invoked(calls', k) => clock' >= fired[k].at + units[k].interval
             /\ (clock' = fired[k].at + units[k].interval /\ TickValid(calls'))
                => Invoked(calls', k)]_vars

\* update() has run a second time at exactly t0 + I, after a throttled tick
C2_Witness ==
    \E k \in DOMAIN units :
        units[k].interval > 0 /\ fired[k].n >= 2 /\ fired[k].exact

---------------------------------------------------------------------------
(* Behaviors.  An instance is [id, cls, target, validated, last,          *)
(* interval]: its identity, its class, the constructor argument it keeps  *)
(* (MoveTo.roamPos, Defend.defendPos, EnterVehicle.vehicle), MoveTo's     *)
(* isValidated, and ABehavior's throttle state.                           *)
(* One time unit is 500 ms.                                               *)

DefaultIntervalMs == 2      \* ABehavior.intervalMs = 1000
EnterVehicleIntervalMs == 1 \* EnterVehicleBehavior: this.intervalMs = 500

NewBehavior(id, cls, target) ==
    [id |-> id, cls |-> cls, target |-> target, validated |-> TRUE,
     last |-> 0,
     interval |-> IF cls = "EnterVehicle" THEN EnterVehicleIntervalMs
                  ELSE DefaultIntervalMs]

IdleBehavior(id) == NewBehavior(id, "Idle", Null)
FightBehavior(id) == NewBehavior(id, "Fight", Null)
DefendBehavior(id, pos) == NewBehavior(id, "Defend", pos)
MoveToBehavior(id, pos) == NewBehavior(id, "MoveTo", pos)
EnterVehicleBehavior(id, vehicle) == NewBehavior(id, "EnterVehicle", vehicle)

\* mod.DistanceBetween on the line the model places every object on
DistanceBetween(a, b) == IF a[2] >= b[2] THEN a[2] - b[2] ELSE b[2] - a[2]

---------------------------------------------------------------------------
(* Scoring entries (CoreAI_ITaskScoringEntry).  The rows of               *)
(* CoreAI_BaseProfile are named by the memory key they score; a "stub"    *)
(* row stands for any other entry: its closures return the values the row *)
(* carries.  w is the world the engine reports during the call.           *)

StubEntry(score, cls, same) ==
    [kind |-> "stub", score |-> score, cls |-> cls, same |-> same]

BaseProfileScoring ==
    <<[kind |-> "isInBattle"], [kind |-> "closestEnemy"],
      [kind |-> "vehicleToDrive"], [kind |-> "arrivedPos"],
      [kind |-> "roamPos"]>>

\* getVehicleToDriveInfo: null, or the vehicle, its position and distance
getVehicleToDriveInfo(m, w) ==
    LET vehicle == Memory_get(m, "vehicleToDrive")
    IN  IF ~Truthy(vehicle)
        THEN [found |-> FALSE, vehicle |-> Null, vPos |-> Null, dist |-> 0]
        ELSE [found |-> TRUE, vehicle |-> vehicle,
              vPos |-> w.vehiclePos[vehicle[2]],
              dist |-> DistanceBetween(w.myPos, w.vehiclePos[vehicle[2]])]

Entry_score(e, m) ==
    CASE e.kind = "stub" -> e.score
      [] e.kind = "isInBattle" ->
            IF Truthy(Memory_get(m, "isInBattle")) THEN 200 ELSE 0
      [] e.kind = "closestEnemy" ->
            IF Truthy(Memory_get(m, "closestEnemy")) THEN 150 ELSE 0
      [] e.kind = "vehicleToDrive" ->
            IF Truthy(Memory_get(m, "vehicleToDrive")) THEN 290 ELSE 0
      [] e.kind = "arrivedPos" ->
            IF Truthy(Memory_get(m, "arrivedPos")) THEN 120 ELSE 0
      [] e.kind = "roamPos" ->
            IF Truthy(Memory_get(m, "roamPos")) THEN 20 ELSE 0

\* entry.behaviorClass?.(brain); "none" when the entry has no resolver
Entry_behaviorClass(e, m, w) ==
    CASE e.kind = "stub" -> e.cls
      [] e.kind = "isInBattle" -> "Fight"
      [] e.kind = "closestEnemy" -> "MoveTo"
      [] e.kind = "vehicleToDrive" ->
            LET data == getVehicleToDriveInfo(m, w)
            IN  IF ~data.found THEN "MoveTo"
                ELSE IF data.dist <= 5 THEN "EnterVehicle" ELSE "MoveTo"
      [] e.kind = "arrivedPos" -> "Defend"
      [] e.kind = "roamPos" -> "MoveTo"

Entry_hasIsSame(e) ==
    CASE e.kind = "stub" -> e.same # "none"
      [] e.kind \in {"isInBattle", "arrivedPos"} -> FALSE
      [] OTHER -> TRUE

\* the position a row steers a MoveTo to: the remembered enemy's position,
\* the vehicle's position, the roam position; Null when it has none
Entry_targetPos(e, m, w) ==
    CASE e.kind = "closestEnemy" ->
            LET enemy == Memory_get(m, "closestEnemy")
            IN  IF Truthy(enemy) THEN w.playerPos[enemy[2]] ELSE Null
      [] e.kind = "vehicleToDrive" -> getVehicleToDriveInfo(m, w).vPos
      [] e.kind = "roamPos" -> Memory_get(m, "roamPos")
      [] OTHER -> Null

\* isSame() with a tolerance: a MoveTo is kept while its target is within
\* 5 of the row's target position
Entry_isSame_tolerant(e, m, w, cur) ==
    CASE e.kind = "stub" -> e.same = "true"
      [] e.kind = "vehicleToDrive" ->
            LET data == getVehicleToDriveInfo(m, w)
            IN  IF ~data.found THEN FALSE
                ELSE IF cur.cls = "EnterVehicle" THEN data.dist <= 5
                ELSE IF cur.cls = "MoveTo"
                     THEN IF data.dist <= 5 THEN FALSE
                          ELSE DistanceBetween(cur.target, data.vPos) <= 5
                ELSE FALSE
      [] e.kind \in {"closestEnemy", "roamPos"} ->
            IF cur.cls # "MoveTo" THEN FALSE
            ELSE LET pos == Entry_targetPos(e, m, w)
                 IN  IF ~Truthy(pos) THEN FALSE
                     ELSE DistanceBetween(cur.target, pos) <= 5
      [] OTHER -> TRUE

Entry_isSame(e, m, w, cur) ==
    CASE e.kind = "stub" -> e.same = "true"
      [] e.kind = "closestEnemy" ->
            IF cur.cls # "MoveTo" THEN FALSE
            ELSE LET enemy == Memory_get(m, "closestEnemy")
                 IN  IF ~Truthy(enemy) THEN FALSE
                     ELSE DistanceBetween(cur.target,
                                          w.playerPos[enemy[2]]) <= 0
      [] e.kind = "vehicleToDrive" ->
            LET data == getVehicleToDriveInfo(m, w)
            IN  IF ~data.found THEN FALSE
                ELSE IF cur.cls = "EnterVehicle" THEN data.dist <= 5
                ELSE IF cur.cls = "MoveTo"
                     THEN IF data.dist <= 5 THEN FALSE
                          ELSE DistanceBetween(cur.target, data.vPos) <= 0
                ELSE FALSE
      [] e.kind = "roamPos" ->
            IF cur.cls # "MoveTo" THEN FALSE
            ELSE LET roamPos == Memory_get(m, "roamPos")
                 IN  IF ~Truthy(roamPos) THEN FALSE
                     ELSE DistanceBetween(cur.target, roamPos) <= 0
      [] OTHER -> TRUE

\* entry.factory(brain): a new instance, with identity id
Entry_factory(e, m, w, id) ==
    CASE e.kind = "stub" -> FightBehavior(id)
      [] e.kind = "isInBattle" -> FightBehavior(id)
      [] e.kind = "closestEnemy" ->
            MoveToBehavior(id, w.playerPos[Memory_get(m, "closestEnemy")[2]])
      [] e.kind = "vehicleToDrive" ->
            LET data == getVehicleToDriveInfo(m, w)
            IN  IF data.dist <= 5
                THEN EnterVehicleBehavior(id, data.vehicle)
                ELSE [MoveToBehavior(id, data.vPos) EXCEPT !.validated = FALSE]
      [] e.kind = "arrivedPos" ->
            DefendBehavior(id, Memory_get(m, "arrivedPos"))
      [] e.kind = "roamPos" ->
            MoveToBehavior(id, Memory_get(m, "roamPos"))

---------------------------------------------------------------------------
(* CoreAI_TaskSelector.chooseNextBehavior *)

\* the scoring loop from row i on; idx = 0 is bestEntry = null, whose
\* bestScore is -Infinity
RECURSIVE ScoreLoop(_, _, _, _)
ScoreLoop(scoring, m, i, best) ==
    IF i > Len(scoring) THEN best
    ELSE LET score == Entry_score(scoring[i], m)
         IN  ScoreLoop(scoring, m, i + 1,
                IF best.idx = 0 \/ score > best.score
                THEN [idx |-> i, score |-> score,
                      seen |-> Append(best.seen, i)]
                ELSE [best EXCEPT !.seen = Append(best.seen, i)])

\* the scoring loop with "score >= bestScore": the last of equal rows wins
RECURSIVE ScoreLoop_last_wins(_, _, _, _)
ScoreLoop_last_wins(scoring, m, i, best) ==
    IF i > Len(scoring) THEN best
    ELSE LET score == Entry_score(scoring[i], m)
         IN  ScoreLoop_last_wins(scoring, m, i + 1,
                IF best.idx = 0 \/ score >= best.score
                THEN [idx |-> i, score |-> score,
                      seen |-> Append(best.seen, i)]
                ELSE [best EXCEPT !.seen = Append(best.seen, i)])

\* bestEntry and bestScore after the loop, and the rows scored, in order
BestEntry_last_wins(scoring, m) ==
    ScoreLoop_last_wins(scoring, m, 1, [idx |-> 0, score |-> 0, seen |-> <<>>])

BestEntry(scoring, m) ==
    ScoreLoop(scoring, m, 1, [idx |-> 0, score |-> 0, seen |-> <<>>])

\* the idle test with "bestScore < 0": a best score of 0 still wins
IdleFallback_negative_only(best) == best.idx = 0 \/ best.score < 0

\* !bestEntry || bestScore <= 0
IdleFallback(best) == best.idx = 0 \/ best.score <= 0

\* chooseNextBehavior without the class and stability test: a winning row
\* always has its factory run
chooseNextBehavior_no_stability(scoring, m, w, cur, id) ==
    LET best == BestEntry(scoring, m)
    IN  IF IdleFallback(best)
        THEN IF cur.cls = "Idle"
             THEN [inst |-> cur, fresh |-> FALSE, factory |-> 0, best |-> best]
             ELSE [inst |-> IdleBehavior(id), fresh |-> TRUE, factory |-> 0,
                   best |-> best]
        ELSE [inst |-> Entry_factory(scoring[best.idx], m, w, id),
              fresh |-> TRUE, factory |-> best.idx, best |-> best]

\* The result: the instance returned, whether it was constructed by the
\* call (fresh), the row whose factory ran (0: none), and the scoring.
chooseNextBehavior(scoring, m, w, cur, id) ==
    LET best == BestEntry(scoring, m)
    IN  IF IdleFallback(best)
        THEN IF cur.cls = "Idle"
             THEN [inst |-> cur, fresh |-> FALSE, factory |-> 0, best |-> best]
             ELSE [inst |-> IdleBehavior(id), fresh |-> TRUE, factory |-> 0,
                   best |-> best]
        ELSE LET e == scoring[best.idx]
                 behaviorClass == Entry_behaviorClass(e, m, w)
                 keepCurrent == IF Entry_hasIsSame(e)
                                THEN Entry_isSame(e, m, w, cur)
                                ELSE TRUE
             IN  IF behaviorClass # "none" /\ cur.cls = behaviorClass
                    /\ keepCurrent
                 THEN [inst |-> cur, fresh |-> FALSE, factory |-> 0,
                       best |-> best]
                 ELSE [inst |-> Entry_factory(e, m, w, id), fresh |-> TRUE,
                       factory |-> best.idx, best |-> best]

---------------------------------------------------------------------------
(* The selector harness: a scoring table of stub rows, an active          *)
(* behavior, and one call of chooseNextBehavior                           *)

StubRows ==
    {StubEntry(sc, sh[1], sh[2]) :
        sc \in -1 .. MaxScore,
        sh \in {<<"none", "none">>, <<"Fight", "none">>,
                <<"Fight", "true">>, <<"Fight", "false">>}}

RECURSIVE SeqsUpTo(_, _)
SeqsUpTo(S, n) ==
    IF n = 0 THEN {<<>>}
    ELSE LET shorter == SeqsUpTo(S, n - 1)
         IN  shorter \cup {Append(q, x) : q \in shorter, x \in S}

NoWorld == [myPos |-> PosV(0), playerPos |-> <<>>, vehiclePos |-> <<>>]

NotChosen == [inst |-> IdleBehavior(0), fresh |-> FALSE, factory |-> 0,
              best |-> [idx |-> 0, score |-> 0, seen |-> <<>>],
              done |-> FALSE]

InitSelector ==
    /\ \E t \in SeqsUpTo(StubRows, MaxEntries) :
           profile = [scoring |-> t, sensors |-> <<>>]
    /\ current \in {IdleBehavior(1), FightBehavior(1)}
    /\ nextId = 2
    /\ chosen = NotChosen
    /\ memory = NewMemory
    /\ clock = 0 /\ watch = <<>> /\ units = <<>> /\ fired = <<>>
    /\ calls = <<>> /\ sensors = <<>> /\ life = <<>> /\ pending = <<>>

SelChoose ==
    /\ ~chosen.done
    /\ chosen' = [done |-> TRUE] @@
                    chooseNextBehavior(profile.scoring, memory, NoWorld,
                                       current, nextId)
    /\ UNCHANGED <<clock, memory, watch, units, fired, calls, profile,
                   sensors, current, nextId, life, pending>>

\* a second call right after the first, with nothing changed in between:
\* the selector is not followed by change(), so the active instance stays,
\* and an instance the first call constructed has taken its identity
SelChooseAgain ==
    /\ chosen.done
    /\ calls = <<>>
    /\ calls' = <<[done |-> TRUE] @@
                    chooseNextBehavior(profile.scoring, memory, NoWorld,
                                       current,
                                       IF chosen.fresh THEN nextId + 1
                                       ELSE nextId)>>
    /\ UNCHANGED <<clock, memory, watch, units, fired, chosen, profile,
                   sensors, current, nextId, life, pending>>

NextSelector == SelChoose \/ SelChooseAgain

SpecSelector == InitSelector /\ [][NextSelector]_vars

Scores == [i \in 1 .. Len(profile.scoring) |-> profile.scoring[i].score]

\* C3: chooseNextBehavior scores every row of the table in table order, and
\* its winning row has a score no other row exceeds and that no earlier row
\* equals: the earliest of the rows with the highest score.
C3_StrictlyHighestFirstWins ==
    chosen.done =>
        /\ chosen.best.seen = [i \in 1 .. Len(Scores) |-> i]
        /\ Len(Scores) > 0 =>
              /\ chosen.best.idx \in 1 .. Len(Scores)
              /\ chosen.best.score = Scores[chosen.best.idx]
              /\ \A j \in 1 .. Len(Scores) :
                    /\ Scores[j] <= Scores[chosen.best.idx]
                    /\ j < chosen.best.idx
                          => Scores[j] < Scores[chosen.best.idx]

\* three rows scored, the highest score shared by the last two
C3_Witness ==
    /\ chosen.done /\ Len(Scores) = 3 /\ chosen.best.idx = 2
    /\ Scores[1] < Scores[2] /\ Scores[3] = Scores[2]

\* C4: with an empty table or a best score <= 0 the result is the active
\* instance if that is an Idle and else a newly constructed Idle, and no
\* factory runs.
C4_IdleFallback ==
    (chosen.done /\ (Len(Scores) = 0 \/ \A j \in 1 .. Len(Scores) : Scores[j] <= 0))
    => /\ chosen.factory = 0
       /\ IF current.cls = "Idle"
          THEN chosen.inst = current /\ ~chosen.fresh
          ELSE /\ chosen.fresh
               /\ chosen.inst.cls = "Idle"
               /\ chosen.inst.id = nextId
               /\ chosen.inst.id # current.id

\* a table whose best score is exactly 0, with a Fight row that would keep
\* the active Fight, answers a new Idle
C4_Witness ==
    /\ chosen.done /\ Len(Scores) > 0 /\ chosen.best.score = 0
    /\ current.cls = "Fight" /\ chosen.fresh /\ chosen.inst.cls = "Idle"

\* the winning row retains the active instance: the Idle fallback with an
\* Idle active, or a row of the active class whose predicate is absent or
\* answers true
Retains ==
    IF Len(Scores) = 0 \/ chosen.best.score <= 0
    THEN current.cls = "Idle"
    ELSE LET e == profile.scoring[chosen.best.idx]
         IN  e.cls = current.cls /\ e.same \in {"none", "true"}

---------------------------------------------------------------------------
(* The memory API and the selector driven together: between the calls of   *)
(* set, clear, prune, reset and the stamp, chooseNextBehavior is evaluated *)
(* on the memory as it stands, with the table of CoreAI_BaseProfile and    *)
(* an Idle or a MoveTo to the roam position as the active behavior.        *)

ActiveBehaviors == {IdleBehavior(1), MoveToBehavior(1, PosV(1))}

MemChoose ==
    \E cur \in ActiveBehaviors :
        /\ calls' = MemCall("chooseNextBehavior", "", Null, Undefined, FALSE,
                             [cur |-> cur] @@
                             chooseNextBehavior(BaseProfileScoring, memory,
                                                NoWorld, cur, 2))
        /\ UNCHANGED <<clock, memory, watch>>
        /\ MemRest

NextMemorySelector == NextMemory \/ MemChoose

SpecMemorySelector == InitMemory /\ [][NextMemorySelector]_vars

\* the rows of the table whose score on memory m is above 0
Scoring(m) ==
    {i \in 1 .. Len(BaseProfileScoring) :
        Entry_score(BaseProfileScoring[i], m) > 0}

\* C23: roamPos set with a ttl and then pruned at a time past its expiry
\* (set at 0 with ttl 2000, pruned at 2001) is absent, and chooseNextBehavior
\* on that memory does not pick the roam row: it answers the behavior of the
\* highest-scoring row among those scoring above 0, and Idle when no row
\* scores above 0 (a new Idle unless an Idle is active).
C23_ExpiredRoamFallsBack ==
    (/\ WasCalled("chooseNextBehavior")
     /\ watch["roamPos"].on /\ watch["roamPos"].due) =>
        LET r == LastCall.ret
        IN  /\ ~Memory_has(memory, "roamPos")
            /\ "roamPos" \notin DOMAIN memory.expirations
            /\ r.factory = 0 \/ BaseProfileScoring[r.factory].kind # "roamPos"
            /\ IF Scoring(memory) = {}
               THEN /\ r.inst.cls = "Idle" /\ r.factory = 0
                    /\ r.cur.cls = "Idle" => r.inst = r.cur
                    /\ r.cur.cls # "Idle" => r.fresh
               ELSE /\ r.best.idx \in Scoring(memory)
                    /\ \A j \in Scoring(memory) :
                          Entry_score(BaseProfileScoring[j], memory)
                              <= r.best.score
                    /\ r.inst.cls =
                          Entry_behaviorClass(BaseProfileScoring[r.best.idx],
                                              memory, NoWorld)

\* roamPos set at time 0 with ttl 2 and pruned at time 3, nothing else in
\* memory, a MoveTo to the roam position active: the selector answers Idle
C23_Witness ==
    /\ WasCalled("chooseNextBehavior")
    /\ watch["roamPos"].on /\ watch["roamPos"].due
    /\ watch["roamPos"].at = 0 /\ watch["roamPos"].ttl = 2
    /\ memory.time = 3
    /\ ~Truthy(memory.data["isInBattle"])
    /\ LastCall.ret.cur.cls = "MoveTo"
    /\ LastCall.ret.inst.cls = "Idle" /\ LastCall.ret.fresh

---------------------------------------------------------------------------
(* The world the engine reports during one callback.  Objects sit on a    *)
(* line; the agent is at myPos.                                           *)
(*   valid, alive      mod.IsPlayerValid, SoldierStateBool.IsAlive        *)
(*   isFiring          SoldierStateBool.IsFiring                          *)
(*   inVehicle, seat   SoldierStateBool.IsInVehicle, GetPlayerVehicleSeat *)
(*   enemy             mod.ClosestPlayerTo(myPos, enemy team): a valid    *)
(*                     player, or Null for none / an invalid one          *)
(*   playerPos         position of each enemy player                      *)
(*   missed            Math.random() > prob of the closest-enemy sensor   *)
(*   vehiclePos, occupied   per vehicle: position, IsVehicleSeatOccupied 0*)
(*   moving, faceDir   speed class and facing direction (roam sensor)     *)

Log(op, key, n) == <<op, key, n>>

EnemyIds == {1}
VehicleIds == <<1>>
WayPoints == <<PosV(4), PosV(8)>>

\* A sensor: its class, ASensor's throttle state, its options, and the
\* RoamSensor's coldStart / lastIntentDir (0: null).
NewSensor(cls, interval, ttl) ==
    [cls |-> cls, last |-> 0, interval |-> interval, ttl |-> ttl,
     radius |-> 0, coldStart |-> TRUE, lastIntentDir |-> 0]

\* What an update returns: the sensor, the memory and the calls it made.
Out(s, m, log) == [sensor |-> s, m |-> m, log |-> log]

FightSensor_update(s, m, w) ==
    LET read == <<Log("memory.get", "isInBattle", 0)>>
    IN  IF Truthy(Memory_get(m, "isInBattle")) THEN Out(s, m, read)
        ELSE IF ~w.valid THEN Out(s, m, read)
        ELSE IF w.isFiring
             THEN Out(s, Memory_set(m, "isInBattle", True, Num(s.ttl)),
                      read \o <<Log("memory.set", "isInBattle", 1)>>)
        ELSE IF ~w.inVehicle \/ w.seat # 0 THEN Out(s, m, read)
        ELSE Out(s, m,
                 read \o (IF Truthy(w.enemy)
                          THEN <<Log("RayCast", "", w.enemy[2])>>
                          ELSE <<>>))

FightSensor_onRayCastHit(s, m, w) ==
    IF ~w.valid THEN Out(s, m, <<>>)
    ELSE IF ~Truthy(w.enemy) THEN Out(s, m, <<>>)
    ELSE IF ~w.hitNear THEN Out(s, m, <<>>)
    ELSE Out(s, Memory_set(m, "isInBattle", True, Num(s.ttl)),
             <<Log("memory.set", "isInBattle", 1)>>)

\* onDamaged() adding its ttl to what remains of the recorded expiry
FightSensor_onDamaged_extend(s, m, w) ==
    Out(s, Memory_set(m, "isInBattle", True,
                      Num(Memory_getTimeRemaining(m, "isInBattle") + s.ttl)),
        <<Log("memory.set", "isInBattle", 1)>>)

\* onDamaged() writing without a ttl: the write removes the recorded expiry
FightSensor_onDamaged_no_ttl(s, m, w) ==
    Out(s, Memory_set(m, "isInBattle", True, Undefined),
        <<Log("memory.set", "isInBattle", 1)>>)

FightSensor_onDamaged(s, m, w) ==
    Out(s, Memory_set(m, "isInBattle", True, Num(s.ttl)),
        <<Log("memory.set", "isInBattle", 1)>>)

\* ClosestEnemySensor.update without the test for the same enemy: every
\* noticed enemy is written again with a new expiry
ClosestEnemySensor_update_refresh(s, m, w) ==
    IF ~w.valid THEN Out(s, m, <<>>)
    ELSE IF ~Truthy(w.enemy)
         THEN Out(s, Memory_set(m, "closestEnemy", Null, Undefined),
                  <<Log("memory.set", "closestEnemy", 0)>>)
    ELSE LET read == <<Log("memory.get", "closestEnemy", 0)>>
             dist == DistanceBetween(w.myPos, w.playerPos[w.enemy[2]])
         IN  IF dist > 0 /\ w.missed THEN Out(s, m, read)
             ELSE Out(s, Memory_set(m, "closestEnemy", w.enemy, Num(s.ttl)),
                      read \o <<Log("memory.set", "closestEnemy",
                                    w.enemy[2])>>)

ClosestEnemySensor_update(s, m, w) ==
    IF ~w.valid THEN Out(s, m, <<>>)
    ELSE IF ~Truthy(w.enemy)
         THEN Out(s, Memory_set(m, "closestEnemy", Null, Undefined),
                  <<Log("memory.set", "closestEnemy", 0)>>)
    ELSE LET read == <<Log("memory.get", "closestEnemy", 0)>>
             dist == DistanceBetween(w.myPos, w.playerPos[w.enemy[2]])
         IN  IF Memory_get(m, "closestEnemy") = w.enemy THEN Out(s, m, read)
             ELSE IF dist > 0 /\ w.missed THEN Out(s, m, read)
             ELSE Out(s, Memory_set(m, "closestEnemy", w.enemy, Num(s.ttl)),
                      read \o <<Log("memory.set", "closestEnemy",
                                    w.enemy[2])>>)

\* the scan keeping the first free vehicle within the radius, nearer or not
RECURSIVE FirstFreeVehicle(_, _, _, _, _)
FirstFreeVehicle(w, radius, i, closest, closestDist) ==
    IF i > Len(w.vehiclePos) THEN closest
    ELSE LET v == i
             dist == DistanceBetween(w.myPos, w.vehiclePos[v])
         IN  IF w.occupied[v]
             THEN FirstFreeVehicle(w, radius, i + 1, closest, closestDist)
             ELSE IF dist > radius
             THEN FirstFreeVehicle(w, radius, i + 1, closest, closestDist)
             ELSE IF closest = 0
             THEN FirstFreeVehicle(w, radius, i + 1, v, dist)
             ELSE FirstFreeVehicle(w, radius, i + 1, closest, closestDist)

\* the scan of VehicleToDriveSensor.update from vehicle i on; closest = 0
\* is null, whose closestDist is Infinity
RECURSIVE ClosestFreeVehicle(_, _, _, _, _)
ClosestFreeVehicle(w, radius, i, closest, closestDist) ==
    IF i > Len(w.vehiclePos) THEN closest
    ELSE LET v == i
             dist == DistanceBetween(w.myPos, w.vehiclePos[v])
         IN  IF w.occupied[v]
             THEN ClosestFreeVehicle(w, radius, i + 1, closest, closestDist)
             ELSE IF dist > radius
             THEN ClosestFreeVehicle(w, radius, i + 1, closest, closestDist)
             ELSE IF closest = 0 \/ dist < closestDist
             THEN ClosestFreeVehicle(w, radius, i + 1, v, dist)
             ELSE ClosestFreeVehicle(w, radius, i + 1, closest, closestDist)

VehicleToDriveSensor_update(s, m, w) ==
    IF ~w.valid THEN Out(s, m, <<>>)
    ELSE IF w.inVehicle
         THEN Out(s, Memory_set(m, "vehicleToDrive", Null, Undefined),
                  <<Log("memory.set", "vehicleToDrive", 0)>>)
    ELSE LET closest == ClosestFreeVehicle(w, s.radius, 1, 0, 0)
         IN  IF closest # 0
             THEN Out(s, Memory_set(m, "vehicleToDrive", VehicleV(closest),
                                    Num(s.ttl)),
                      <<Log("memory.set", "vehicleToDrive", closest)>>)
             ELSE Out(s, Memory_set(m, "vehicleToDrive", Null, Undefined),
                      <<Log("memory.set", "vehicleToDrive", 0)>>)

\* the scan assigns closest nowhere, so the sensor always writes null
CapturePointSensor_update(s, m, w) ==
    IF ~w.valid THEN Out(s, m, <<>>)
    ELSE Out(s, Memory_set(m, "capturePoint", Null, Undefined),
             <<Log("memory.set", "capturePoint", 0)>>)

\* A direction is -1 or 1 along the line of the positions, or Across it;
\* 0 is the zero vector.
Across == 2

\* mod.DotProduct of two directions
DotProduct(a, b) ==
    IF a = 0 \/ b = 0 THEN 0
    ELSE IF a = Across \/ b = Across THEN (IF a = b THEN 1 ELSE 0)
    ELSE a * b

\* mod.DirectionTowards(from, to) on the line: -1, 0 or 1
DirectionTowards(from, to) ==
    IF to[2] > from[2] THEN 1 ELSE IF to[2] < from[2] THEN -1 ELSE 0

\* the candidates of RoamSensor.update: the points at least 3 away
RECURSIVE RoamCandidates(_, _, _, _)
RoamCandidates(points, myPos, forward, i) ==
    IF i > Len(points) THEN <<>>
    ELSE LET pos == points[i]
             dist == DistanceBetween(myPos, pos)
             rest == RoamCandidates(points, myPos, forward, i + 1)
         IN  IF dist < 3 THEN rest
             ELSE <<[pos |-> pos, dist |-> dist,
                     dot |-> DotProduct(forward,
                                        DirectionTowards(myPos, pos))]>>
                  \o rest

\* candidates.filter((c) => c.dot > 0)
RECURSIVE AheadOnly(_, _)
AheadOnly(candidates, i) ==
    IF i > Len(candidates) THEN <<>>
    ELSE (IF candidates[i].dot > 0 THEN <<candidates[i]>> ELSE <<>>)
         \o AheadOnly(candidates, i + 1)

\* w.speed is "still" (speed <= 0.3), "slow" (0.3 < speed <= 0.5) or "fast"
\* (speed > 0.5).  scoreCandidate adds a random jitter to every score; the
\* model lets w.pick name the usable candidate the jitter lets win.
RoamSensor_update(s, m, w) ==
    LET read == <<Log("memory.get", "roamPos", 0)>>
    IN  IF Truthy(Memory_get(m, "roamPos")) THEN Out(s, m, read)
        ELSE IF ~w.valid THEN Out(s, m, read)
        ELSE IF Len(WayPoints) = 0 THEN Out(s, m, read)
        ELSE
        LET forward == IF w.speed # "still" THEN w.velDir
                       ELSE IF s.lastIntentDir # 0 THEN s.lastIntentDir
                       ELSE w.faceDir
            s1 == [s EXCEPT !.lastIntentDir = forward]
            candidates == RoamCandidates(WayPoints, w.myPos, forward, 1)
            usable == IF w.speed = "fast" THEN AheadOnly(candidates, 1)
                      ELSE candidates
        IN  IF Len(candidates) = 0 THEN Out(s1, m, read)
            ELSE IF Len(usable) = 0 THEN Out(s1, m, read)
            ELSE LET best == usable[((w.pick - 1) % Len(usable)) + 1]
                 IN  Out([s1 EXCEPT
                             !.lastIntentDir =
                                 DirectionTowards(w.myPos, best.pos),
                             !.coldStart = FALSE],
                         Memory_set(m, "roamPos", best.pos, Num(s.ttl)),
                         read \o <<Log("memory.set", "roamPos", best.pos[2])>>)

RoamSensor_reset(s) == [s EXCEPT !.coldStart = TRUE, !.lastIntentDir = 0]

\* An Arrival sensor: a sensor with its distance threshold, its cooldown
\* and the time it last triggered (0: never).
ArrivalSensor(interval, distanceThreshold, ttl, cooldownMs) ==
    [distanceThreshold |-> distanceThreshold, cooldownMs |-> cooldownMs,
     lastTriggerTime |-> 0] @@ NewSensor("Arrival", interval, ttl)

\* the loop over the points from point i on: the first point within the
\* threshold, 0 if none
RECURSIVE FirstPointWithin(_, _, _, _)
FirstPointWithin(points, myPos, distanceThreshold, i) ==
    IF i > Len(points) THEN 0
    ELSE IF DistanceBetween(myPos, points[i]) <= distanceThreshold THEN i
    ELSE FirstPointWithin(points, myPos, distanceThreshold, i + 1)

ArrivalSensor_update(s, m, w) ==
    IF ~w.valid THEN Out(s, m, <<>>)
    ELSE IF Len(WayPoints) = 0 THEN Out(s, m, <<>>)
    ELSE IF s.lastTriggerTime > 0 /\ m.time - s.lastTriggerTime < s.cooldownMs
         THEN Out(s, m, <<>>)
    ELSE LET read == <<Log("memory.get", "arrivedPos", 0)>>
             i == FirstPointWithin(WayPoints, w.myPos, s.distanceThreshold, 1)
         IN  IF Truthy(Memory_get(m, "arrivedPos")) THEN Out(s, m, read)
             ELSE IF i = 0 THEN Out(s, m, read)
             ELSE Out([s EXCEPT !.lastTriggerTime = m.time],
                      Memory_set(m, "arrivedPos", WayPoints[i], Num(s.ttl)),
                      read \o <<Log("memory.set", "arrivedPos",
                                    WayPoints[i][2])>>)

Sensor_update(s, m, w) ==
    CASE s.cls = "Fight" -> FightSensor_update(s, m, w)
      [] s.cls = "Arrival" -> ArrivalSensor_update(s, m, w)
      [] s.cls = "ClosestEnemy" -> ClosestEnemySensor_update(s, m, w)
      [] s.cls = "VehicleToDrive" -> VehicleToDriveSensor_update(s, m, w)
      [] s.cls = "CapturePoint" -> CapturePointSensor_update(s, m, w)
      [] s.cls = "Roam" -> RoamSensor_update(s, m, w)

Sensor_reset(s) ==
    IF s.cls = "Roam" THEN RoamSensor_reset(s) ELSE ASensor_reset(s)

---------------------------------------------------------------------------
(* CoreAI_Perception.  A brain b is the record of the Brain's parts:      *)
(* [memory, profile, sensors, current, nextId, life, pending, chosen, log]*)

\* Perception.update from sensor i on: tick each sensor in order
RECURSIVE Perception_update(_, _, _)
Perception_update(b, w, i) ==
    IF i > Len(b.sensors) THEN b
    ELSE LET s == b.sensors[i]
             t == ASensor_tick(s, b.memory.time, w.valid)
             ticked == Append(b.log, Log("sensor.tick", s.cls, i))
         IN  IF ~t.update
             THEN Perception_update([b EXCEPT !.log = ticked], w, i + 1)
             ELSE LET u == Sensor_update(t.unit, b.memory, w)
                  IN  Perception_update(
                          [b EXCEPT !.sensors[i] = u.sensor,
                                    !.memory = u.m,
                                    !.log = Append(ticked,
                                              Log("sensor.update", s.cls, i))
                                            \o u.log],
                          w, i + 1)

Perception_reset(sens) == [i \in 1 .. Len(sens) |-> Sensor_reset(sens[i])]

\* the index of the first sensor of class cls, 0 if none
RECURSIVE FindSensor(_, _, _)
FindSensor(sens, cls, i) ==
    IF i > Len(sens) THEN 0
    ELSE IF sens[i].cls = cls THEN i
    ELSE FindSensor(sens, cls, i + 1)

\* addSensor() that always pushes: a sensor of a class already installed
\* stays beside the new one
Perception_addSensor_push(sens, sensor) == Append(sens, sensor)

Perception_addSensor(sens, sensor) ==
    LET idx == FindSensor(sens, sensor.cls, 1)
    IN  IF idx # 0 THEN [sens EXCEPT ![idx] = sensor]
        ELSE Append(sens, sensor)

Perception_removeSensor(sens, cls) == SelectSeq(sens, LAMBDA s : s.cls # cls)

Perception_clearSensors(sens) == <<>>

RECURSIVE AddAll(_, _, _)
AddAll(sens, factories, i) ==
    IF i > Len(factories) THEN sens
    ELSE AddAll(Perception_addSensor(sens, factories[i]), factories, i + 1)

---------------------------------------------------------------------------
(* Behaviors: enter, exit, update.  The lifecycle of instance id is        *)
(* life[id]: "new" (constructed), "entered", "exited", or "bad" once a     *)
(* call arrives out of order (a second enter, a tick before enter or       *)
(* after exit, a second exit).                                             *)

Emit(b, entries) == [b EXCEPT !.log = b.log \o entries]

\* an async enter reaching "await mod.Wait(0); await mod.Wait(0)": nothing
\* runs between the two waits, so the sequence has one point of suspension
Suspend(b, inst) ==
    [b EXCEPT !.pending = Append(b.pending,
                  [id |-> inst.id, cls |-> inst.cls, target |-> inst.target])]

IdleBehavior_enter(b, w, inst) ==
    IF w.valid THEN Emit(b, <<Log("AIIdleBehavior", "", inst.id)>>) ELSE b

DefendBehavior_enter(b, w, inst) ==
    IF ~w.valid THEN b
    ELSE Emit(b, <<Log("AIDefendPositionBehavior", "", inst.target[2])>>)

\* the answer of mod.IsVehicleSeatOccupied(vehicle, 0)
SeatOccupied(w, inst) ==
    Log("IsVehicleSeatOccupied",
        IF w.occupied[inst.target[2]] THEN "taken" ELSE "free",
        inst.target[2])

\* EnterVehicle.enter that asks for the seat and seats the agent whatever
\* the answer
EnterVehicleBehavior_enter_no_seat_test(b, w, inst) ==
    IF ~w.valid THEN b
    ELSE [Emit(b, <<SeatOccupied(w, inst),
                    Log("ForcePlayerToSeat", "", inst.target[2]),
                    Log("memory.set", "vehicleToDrive", 0)>>)
             EXCEPT !.memory =
                 Memory_set(b.memory, "vehicleToDrive", Null, Undefined)]

EnterVehicleBehavior_enter(b, w, inst) ==
    IF ~w.valid THEN b
    ELSE IF w.occupied[inst.target[2]]
         THEN Emit(b, <<SeatOccupied(w, inst)>>)
    ELSE [Emit(b, <<SeatOccupied(w, inst),
                    Log("ForcePlayerToSeat", "", inst.target[2]),
                    Log("memory.set", "vehicleToDrive", 0)>>)
             EXCEPT !.memory =
                 Memory_set(b.memory, "vehicleToDrive", Null, Undefined)]

FightBehavior_enter(b, w, inst) ==
    IF ~w.valid THEN b
    ELSE IF w.inVehicle /\ w.seat = 0
         THEN Suspend(Emit(b, <<Log("ForcePlayerExitVehicle", "", inst.id)>>),
                      inst)
    ELSE Emit(b, <<Log("AIBattlefieldBehavior", "", inst.id)>>)

MoveToBehavior_enter(b, w, inst) ==
    IF ~w.valid THEN b
    ELSE IF w.inVehicle /\ w.seat = 0
         THEN Suspend(Emit(b, <<Log("ForcePlayerExitVehicle", "", inst.id)>>),
                      inst)
    ELSE Emit(b, <<Log("AISetMoveSpeed", "", inst.id),
                   Log(IF inst.validated THEN "AIValidatedMoveToBehavior"
                       ELSE "AIMoveToBehavior", "", inst.target[2])>>)

Behavior_enter(b, w, inst) ==
    LET b1 == [Emit(b, <<Log("enter", inst.cls, inst.id)>>)
                  EXCEPT !.life[inst.id] =
                      IF @ = "new" THEN "entered" ELSE "bad"]
    IN  CASE inst.cls = "Idle" -> IdleBehavior_enter(b1, w, inst)
          [] inst.cls = "Defend" -> DefendBehavior_enter(b1, w, inst)
          [] inst.cls = "EnterVehicle" ->
                EnterVehicleBehavior_enter(b1, w, inst)
          [] inst.cls = "Fight" -> FightBehavior_enter(b1, w, inst)
          [] inst.cls = "MoveTo" -> MoveToBehavior_enter(b1, w, inst)

\* every exit() of the behaviors is empty
Behavior_exit(b, inst) ==
    [Emit(b, <<Log("exit", inst.cls, inst.id)>>)
        EXCEPT !.life[inst.id] = IF @ = "entered" THEN "exited" ELSE "bad"]

\* MoveTo.update with "dist <= 3": the edge of the radius counts as arrived
MoveToBehavior_update_inclusive(b, w, inst) ==
    IF ~w.valid THEN b
    ELSE LET b1 == Emit(b, <<Log("memory.get", "roamPos", 0)>>)
         IN  IF ~Truthy(Memory_get(b.memory, "roamPos")) THEN b1
             ELSE IF DistanceBetween(w.myPos, inst.target) <= 3
             THEN [Emit(b1, <<Log("memory.set", "roamPos", 0)>>)
                      EXCEPT !.memory =
                          Memory_set(b.memory, "roamPos", Null, Undefined)]
             ELSE b1

\* MoveTo.update without the test of the player's validity
MoveToBehavior_update_unguarded(b, w, inst) ==
    LET b1 == Emit(b, <<Log("memory.get", "roamPos", 0)>>)
    IN  IF ~Truthy(Memory_get(b.memory, "roamPos")) THEN b1
        ELSE IF DistanceBetween(w.myPos, inst.target) < 3
        THEN [Emit(b1, <<Log("memory.set", "roamPos", 0)>>)
                 EXCEPT !.memory =
                     Memory_set(b.memory, "roamPos", Null, Undefined)]
        ELSE b1

MoveToBehavior_update(b, w, inst) ==
    IF ~w.valid THEN b
    ELSE LET b1 == Emit(b, <<Log("memory.get", "roamPos", 0)>>)
         IN  IF ~Truthy(Memory_get(b.memory, "roamPos")) THEN b1
             ELSE IF DistanceBetween(w.myPos, inst.target) < 3
             THEN [Emit(b1, <<Log("memory.set", "roamPos", 0)>>)
                      EXCEPT !.memory =
                          Memory_set(b.memory, "roamPos", Null, Undefined)]
             ELSE b1

Behavior_update(b, w, inst) ==
    IF inst.cls = "MoveTo" THEN MoveToBehavior_update(b, w, inst) ELSE b

\* the rest of a suspended enter, run after the second wait: nothing in it
\* asks whether the player is still valid
Behavior_resume(b, w, p) ==
    LET state == IF w.valid THEN "valid" ELSE "invalid"
    IN  IF p.cls = "Fight"
        THEN Emit(b, <<Log("ForcePlayerToSeat", state, p.id),
                       Log("AIBattlefieldBehavior", state, p.id)>>)
        ELSE Emit(b, <<Log("ForcePlayerToSeat", state, p.id),
                       Log("AISetMoveSpeed", state, p.id),
                       Log("AIDefendPositionBehavior", state, p.target[2])>>)

---------------------------------------------------------------------------
(* CoreAI_BehaviorController *)

\* the constructor without the enter() of the first Idle
BehaviorController_constructor_no_enter(b, w) ==
    LET idle == IdleBehavior(b.nextId)
    IN  [Emit(b, <<Log("new", "Idle", idle.id)>>)
            EXCEPT !.current = idle,
                   !.nextId = @ + 1,
                   !.life = MapSet(@, idle.id, "new")]

BehaviorController_constructor(b, w) ==
    LET idle == IdleBehavior(b.nextId)
        b1 == [Emit(b, <<Log("new", "Idle", idle.id)>>)
                  EXCEPT !.current = idle,
                         !.nextId = @ + 1,
                         !.life = MapSet(@, idle.id, "new")]
    IN  Behavior_enter(b1, w, idle)

\* change() entering next before it exits the old behavior
BehaviorController_change_enter_first(b, w, next) ==
    LET b0 == Emit(b, <<Log("change", next.cls, next.id)>>)
    IN  IF b.current.id = next.id THEN b0
        ELSE LET old == b.current
                 b1 == Behavior_enter(b0, w, next)
                 b2 == Behavior_exit(b1, old)
             IN  [Emit(b2, <<Log("current", next.cls, next.id)>>)
                     EXCEPT !.current = next]

\* change() without the test for the same instance
BehaviorController_change_always(b, w, next) ==
    LET b0 == Emit(b, <<Log("change", next.cls, next.id)>>)
        b1 == Behavior_exit(b0, b.current)
        b2 == [Emit(b1, <<Log("current", next.cls, next.id)>>)
                  EXCEPT !.current = next]
    IN  Behavior_enter(b2, w, next)

BehaviorController_change(b, w, next) ==
    LET b0 == Emit(b, <<Log("change", next.cls, next.id)>>)
    IN  IF b.current.id = next.id THEN b0
        ELSE LET b1 == Behavior_exit(b0, b.current)
                 b2 == [Emit(b1, <<Log("current", next.cls, next.id)>>)
                           EXCEPT !.current = next]
             IN  Behavior_enter(b2, w, next)

\* update(): current.tick(), ABehavior's throttle in front of update()
BehaviorController_update(b, w) ==
    LET inst == b.current
        t == ABehavior_tick(inst, b.memory.time)
        b1 == [Emit(b, <<Log("tick", inst.cls, inst.id)>>)
                  EXCEPT !.current = t.unit,
                         !.life[inst.id] =
                             IF @ = "entered" THEN @ ELSE "bad"]
    IN  IF t.update
        THEN Behavior_update(Emit(b1, <<Log("update", inst.cls, inst.id)>>),
                             w, t.unit)
        ELSE b1

\* resetAll() keeping an Idle that is already active
BehaviorController_resetAll_keep_idle(b, w) ==
    IF b.current.cls = "Idle" THEN b
    ELSE LET idle == IdleBehavior(b.nextId)
             b1 == Behavior_exit(b, b.current)
             b2 == [Emit(b1, <<Log("new", "Idle", idle.id),
                               Log("current", "Idle", idle.id)>>)
                       EXCEPT !.current = idle,
                              !.nextId = @ + 1,
                              !.life = MapSet(@, idle.id, "new")]
         IN  Behavior_enter(b2, w, idle)

BehaviorController_resetAll(b, w) ==
    LET idle == IdleBehavior(b.nextId)
        b1 == Behavior_exit(b, b.current)
        b2 == [Emit(b1, <<Log("new", "Idle", idle.id),
                          Log("current", "Idle", idle.id)>>)
                  EXCEPT !.current = idle,
                         !.nextId = @ + 1,
                         !.life = MapSet(@, idle.id, "new")]
    IN  Behavior_enter(b2, w, idle)

---------------------------------------------------------------------------
(* CoreAI_TaskSelector as the Brain calls it: the instance it answers,    *)
(* and a record of the call (the active instance it was given, the        *)
(* winning row's class and what its stability predicate said).            *)

NoChoice == [done |-> FALSE]

TaskSelector_chooseNextBehavior(b, w) ==
    LET scoring == b.profile.scoring
        r == chooseNextBehavior(scoring, b.memory, w, b.current, b.nextId)
        idx == r.best.idx
        scored == [i \in 1 .. Len(r.best.seen) |->
                      Log("score", scoring[r.best.seen[i]].kind,
                          r.best.seen[i])]
        made == IF ~r.fresh THEN <<>>
                ELSE IF r.factory = 0
                     THEN <<Log("new", "Idle", r.inst.id)>>
                     ELSE <<Log("factory", r.inst.cls, r.inst.id)>>
    IN  [b EXCEPT
            !.chosen =
                [done |-> TRUE, cur |-> b.current, inst |-> r.inst,
                 fresh |-> r.fresh, factory |-> r.factory, best |-> r.best,
                 cls |-> IF idx = 0 THEN "none"
                         ELSE Entry_behaviorClass(scoring[idx], b.memory, w),
                 pos |-> IF idx = 0 THEN Null
                         ELSE Entry_targetPos(scoring[idx], b.memory, w),
                 keep |-> IF idx = 0 THEN FALSE
                          ELSE IF Entry_hasIsSame(scoring[idx])
                               THEN Entry_isSame(scoring[idx], b.memory, w,
                                                 b.current)
                               ELSE TRUE],
            !.nextId = IF r.fresh THEN @ + 1 ELSE @,
            !.life = IF r.fresh THEN MapSet(@, r.inst.id, "new") ELSE @,
            !.log = @ \o <<Log("chooseNextBehavior", "", 0)>> \o scored
                      \o made]

---------------------------------------------------------------------------
(* CoreAI_Brain *)

\* the two profiles the script installs; the sensors' intervals and TTLs
\* are scaled into the clock's range: every sensor runs once per time unit
\* and what it writes lives one time unit
infantryProfile ==
    [name |-> "infantry", scoring |-> BaseProfileScoring,
     sensors |-> <<NewSensor("Fight", 1, 1),
                   NewSensor("ClosestEnemy", 1, 1),
                   [NewSensor("VehicleToDrive", 1, 1)
                       EXCEPT !.radius = 100],
                   NewSensor("CapturePoint", 1, 1)>>]

driverProfile ==
    [name |-> "driver", scoring |-> BaseProfileScoring,
     sensors |-> <<NewSensor("Fight", 1, 1),
                   NewSensor("CapturePoint", 1, 1),
                   NewSensor("Roam", 1, 1)>>]

\* installProfile without clearSensors(): the new profile's sensors join the
\* installed ones
Brain_installProfile_keep_sensors(b, prof) ==
    [Emit(b, <<Log("installProfile", prof.name, Len(prof.sensors))>>)
        EXCEPT !.profile = prof,
               !.sensors = AddAll(@, prof.sensors, 1)]

Brain_installProfile(b, prof) ==
    [Emit(b, <<Log("installProfile", prof.name, Len(prof.sensors))>>)
        EXCEPT !.profile = prof,
               !.sensors = AddAll(Perception_clearSensors(@), prof.sensors, 1)]

Brain_useSensor(b, sensor) ==
    [Emit(b, <<Log("useSensor", sensor.cls, 0)>>)
        EXCEPT !.sensors =
            Perception_addSensor(Perception_removeSensor(@, sensor.cls),
                                 sensor)]

Brain_constructor(prof, w) ==
    LET b0 == [memory |-> NewMemory, profile |-> prof, sensors |-> <<>>,
               current |-> Null, nextId |-> 1, life |-> <<>>,
               pending |-> <<>>, chosen |-> NoChoice,
               log |-> <<Log("constructor", "", 0)>>]
    IN  Brain_installProfile(BehaviorController_constructor(b0, w), prof)

Brain_reset(b, w) ==
    LET b1 == [Emit(b, <<Log("reset", "", 0)>>)
                  EXCEPT !.sensors = Perception_reset(@),
                         !.memory = Memory_reset(@)]
        b2 == BehaviorController_resetAll(b1, w)
    IN  IF w.valid THEN Emit(b2, <<Log("AISetTarget", "", 0)>>) ELSE b2

Brain_OnAIMoveFinished(b) ==
    [Emit(b, <<Log("memory.set", "roamPos", 0)>>)
        EXCEPT !.memory = Memory_set(@, "roamPos", Null, Undefined)]

Brain_OnPlayerDamaged(b, w) ==
    LET idx == FindSensor(b.sensors, "Fight", 1)
    IN  IF idx = 0 THEN b
        ELSE LET u == FightSensor_onDamaged(b.sensors[idx], b.memory, w)
             IN  [Emit(b, <<Log("onDamaged", "", idx)>> \o u.log)
                     EXCEPT !.sensors[idx] = u.sensor, !.memory = u.m]

\* what the engine answers about the event point of a ray cast hit: the
\* agent invalid, no valid enemy closest to the point, or the point far
\* from or near that enemy
RayCastHit(w) ==
    IF ~w.valid THEN "invalid"
    ELSE IF ~Truthy(w.enemy) THEN "none"
    ELSE IF w.hitNear THEN "near" ELSE "far"

Brain_OnRayCastHit(b, w) ==
    LET idx == FindSensor(b.sensors, "Fight", 1)
    IN  IF idx = 0 THEN b
        ELSE LET u == FightSensor_onRayCastHit(b.sensors[idx], b.memory, w)
             IN  [Emit(b, <<Log("onRayCastHit", RayCastHit(w), idx)>> \o u.log)
                     EXCEPT !.sensors[idx] = u.sensor, !.memory = u.m]

\* memory.time = Date.now()
Brain_stamp(b, t) ==
    [Emit(b, <<Log("stamp", "", t)>>) EXCEPT !.memory.time = t]

Brain_prune(b) ==
    [Emit(b, <<Log("prune", "", 0)>>) EXCEPT !.memory = Memory_prune(@)]

\* the remembered enemy is valid when it is the enemy the world still holds
Brain_target(b, w) ==
    LET enemy == Memory_get(b.memory, "closestEnemy")
    IN  Emit(b, <<Log("memory.get", "closestEnemy", 0),
                  Log("AISetTarget", "",
                      IF Truthy(enemy) /\ w.enemy = enemy THEN enemy[2]
                      ELSE 0)>>)

Brain_perceive(b, w) == Perception_update(b, w, 1)

Brain_decide(b, w) ==
    LET b1 == TaskSelector_chooseNextBehavior(b, w)
        b2 == BehaviorController_change(b1, w, b1.chosen.inst)
    IN  BehaviorController_update(b2, w)

Entered(b, w) ==
    Emit(b, <<Log("OngoingPlayer", IF w.valid THEN "valid" ELSE "invalid",
                  IF w.valid /\ w.alive THEN 1 ELSE 0)>>)

\* OngoingPlayer running the sensors before it stamps and prunes
OngoingPlayer_sensors_first(b, w, t) ==
    IF ~w.valid THEN Entered(b, w)
    ELSE IF ~w.alive THEN Brain_prune(Brain_stamp(Entered(b, w), t))
    ELSE LET b1 == Brain_perceive(Entered(b, w), w)
             b2 == Brain_prune(Brain_stamp(b1, t))
         IN  Brain_decide(Brain_target(b2, w), w)

\* OngoingPlayer pruning only after it found the player alive
OngoingPlayer_prune_when_alive(b, w, t) ==
    IF ~w.valid THEN Entered(b, w)
    ELSE LET b1 == Brain_stamp(Entered(b, w), t)
         IN  IF ~w.alive THEN b1
             ELSE Brain_decide(
                      Brain_perceive(Brain_target(Brain_prune(b1), w), w), w)

OngoingPlayer(b, w, t) ==
    IF ~w.valid THEN Entered(b, w)
    ELSE LET b1 == Brain_prune(Brain_stamp(Entered(b, w), t))
         IN  IF ~w.alive THEN b1
             ELSE Brain_decide(Brain_perceive(Brain_target(b1, w), w), w)

---------------------------------------------------------------------------
(* The Brain driven by the engine's callbacks *)

BaseWorld ==
    [valid |-> TRUE, alive |-> TRUE, isFiring |-> FALSE, inVehicle |-> FALSE,
     seat |-> 0, myPos |-> PosV(0), enemy |-> Null, playerPos |-> <<PosV(4)>>,
     missed |-> FALSE, vehiclePos |-> [v \in DOMAIN VehicleIds |-> PosV(8)],
     occupied |-> [v \in DOMAIN VehicleIds |-> TRUE],
     hitNear |-> FALSE, speed |-> "still", velDir |-> 1, faceDir |-> 1,
     pick |-> 1]

InvalidWorld == [valid |-> FALSE, alive |-> FALSE] @@ BaseWorld

DeadWorld == [alive |-> FALSE] @@ BaseWorld

\* What a living agent on foot may find: nothing, itself firing, an enemy
\* (noticed, missed, or at its own position), the vehicle free (far, near),
\* the vehicle near but taken, itself a passenger.
OnFoot ==
    {[isFiring |-> FALSE],
     [isFiring |-> TRUE],
     [enemy |-> PlayerV(1)],
     [enemy |-> PlayerV(1), missed |-> TRUE],
     [enemy |-> PlayerV(1), missed |-> TRUE, myPos |-> PosV(4)],
     [occupied |-> <<FALSE>>],
     [occupied |-> <<FALSE>>, myPos |-> PosV(4)],
     [myPos |-> PosV(4)],
     [inVehicle |-> TRUE, seat |-> 1]}

\* What a driver may find: standing, an enemy in sight, itself firing,
\* moving slowly or fast in either direction, standing on a way point.
Driving ==
    {[inVehicle |-> TRUE] @@ d :
        d \in {[isFiring |-> FALSE],
               [enemy |-> PlayerV(1)],
               [isFiring |-> TRUE],
               [speed |-> "slow", velDir |-> -1, pick |-> 2],
               [speed |-> "fast"],
               [speed |-> "fast", velDir |-> -1],
               [myPos |-> PosV(4), faceDir |-> -1]}}

\* The script installs the driver profile when the agent takes seat 0
\* (OnPlayerEnterVehicleSeat) and the infantry profile when it deploys or
\* leaves the vehicle, so a Brain drives exactly while it holds the driver
\* profile.
LivingWorlds(prof) ==
    {d @@ BaseWorld : d \in IF prof.name = "driver" THEN Driving ELSE OnFoot}

Worlds(prof) == {InvalidWorld, DeadWorld} \cup LivingWorlds(prof)

Brain ==
    [memory |-> memory, profile |-> profile, sensors |-> sensors,
     current |-> current, nextId |-> nextId, life |-> life,
     pending |-> pending, chosen |-> NoChoice, log |-> <<>>]

\* the Brain after a callback; an operation that would construct more than
\* MaxInst instances is left out
Becomes(b) ==
    /\ b.nextId <= MaxInst + 1
    /\ memory' = b.memory
    /\ profile' = b.profile
    /\ sensors' = b.sensors
    /\ current' = b.current
    /\ nextId' = b.nextId
    /\ life' = b.life
    /\ pending' = b.pending
    /\ chosen' = b.chosen
    /\ calls' = b.log
    /\ UNCHANGED <<watch, units, fired>>

InitBrain ==
    /\ clock = 0
    /\ \E valid \in BOOLEAN :
          LET b == Brain_constructor(infantryProfile,
                                     [valid |-> valid] @@ BaseWorld)
          IN  /\ memory = b.memory
              /\ profile = b.profile
              /\ sensors = b.sensors
              /\ current = b.current
              /\ nextId = b.nextId
              /\ life = b.life
              /\ pending = b.pending
              /\ chosen = b.chosen
              /\ calls = b.log
    /\ watch = <<>> /\ units = <<>> /\ fired = <<>>

BrainTick ==
    \E t \in clock .. MaxClock : \E w \in Worlds(profile) :
        /\ clock' = t
        /\ Becomes(OngoingPlayer(Brain, w, t))

BrainReset ==
    \E valid \in BOOLEAN :
        /\ Becomes(Brain_reset(Brain, [valid |-> valid] @@ BaseWorld))
        /\ UNCHANGED clock

BrainInstallProfile ==
    \E prof \in {infantryProfile, driverProfile} :
        /\ Becomes(Brain_installProfile(Brain, prof))
        /\ UNCHANGED clock

BrainMoveFinished ==
    /\ Becomes(Brain_OnAIMoveFinished(Brain))
    /\ UNCHANGED clock

BrainDamaged ==
    /\ Becomes(Brain_OnPlayerDamaged(Brain, BaseWorld))
    /\ UNCHANGED clock

\* the ray hit nothing near the enemy it was cast at, or hit near it; the
\* enemy may be gone, the agent invalid
RayCastHits ==
    {hit @@ BaseWorld :
        hit \in {[valid |-> FALSE], [enemy |-> Null],
                 [enemy |-> PlayerV(1)],
                 [enemy |-> PlayerV(1), hitNear |-> TRUE]}}

BrainRayCastHit ==
    \E w \in RayCastHits :
        /\ Becomes(Brain_OnRayCastHit(Brain, w))
        /\ UNCHANGED clock

\* a suspended enter wakes from its waits and runs on
Resume ==
    \E i \in 1 .. Len(pending) : \E valid \in BOOLEAN :
        LET p == pending[i]
            others == [j \in 1 .. Len(pending) - 1 |->
                          IF j < i THEN pending[j] ELSE pending[j + 1]]
            b == [Brain EXCEPT !.log = <<Log("resume", p.cls, p.id)>>]
        IN  /\ Becomes(Behavior_resume(
                        [b EXCEPT !.pending = others],
                        [valid |-> valid] @@ BaseWorld, p))
            /\ UNCHANGED clock

NextBrain ==
    \/ BrainTick
    \/ BrainReset
    \/ BrainInstallProfile
    \/ BrainMoveFinished
    \/ BrainDamaged
    \/ BrainRayCastHit
    \/ Resume

SpecBrain == InitBrain /\ [][NextBrain]_vars

---------------------------------------------------------------------------
(* Reading the record of the last callback *)

Only(log, ops) == SelectSeq(log, LAMBDA e : e[1] \in ops)

At(log, op) == {i \in 1 .. Len(log) : log[i][1] = op}

---------------------------------------------------------------------------
(* Perception driven directly: installProfile, useSensor, addSensor,      *)
(* removeSensor, clearSensors and update.  Every sensor constructed gets   *)
(* an identity, the field id, so that the instance a call retires can be   *)
(* told from the one that takes its place.                                 *)

SensorClasses == {"Fight", "Roam"}

\* the instances a profile's factories make, numbered from id on
Constructed(prof, id) ==
    [prof EXCEPT !.sensors =
        [i \in 1 .. Len(prof.sensors) |->
            [id |-> id + i - 1] @@ prof.sensors[i]]]

\* the record of the last call: the sensor or class it was given, the
\* class and identity of the sensors installed when it was made, and
\* whether an installed sensor of that class had fired
PerCall(op, cls, id, before) ==
    <<[op |-> op, cls |-> cls, id |-> id,
       before |-> [i \in 1 .. Len(before) |->
                      [cls |-> before[i].cls, id |-> before[i].id]],
       fired |-> \E i \in 1 .. Len(before) :
                    before[i].cls = cls /\ before[i].last > 0,
       ticked |-> <<>>]>>

PerBrain ==
    [memory |-> memory, profile |-> profile, sensors |-> sensors, log |-> <<>>]

PerRest == UNCHANGED <<watch, units, fired, chosen, current, life, pending>>

InitPerception ==
    /\ clock = 0
    /\ memory = NewMemory
    /\ profile = infantryProfile
    /\ sensors = <<>>
    /\ nextId = 1
    /\ calls = <<>>
    /\ watch = <<>> /\ units = <<>> /\ fired = <<>> /\ chosen = <<>>
    /\ current = <<>> /\ life = <<>> /\ pending = <<>>

PerInstallProfile ==
    \E prof \in {infantryProfile, driverProfile} :
        LET b == Brain_installProfile(PerBrain, Constructed(prof, nextId))
        IN  /\ nextId + Len(prof.sensors) <= MaxSensors + 1
            /\ sensors' = b.sensors
            /\ profile' = prof
            /\ nextId' = nextId + Len(prof.sensors)
            /\ calls' = PerCall("installProfile", prof.name, nextId, sensors)
            /\ UNCHANGED <<clock, memory>>
            /\ PerRest

PerUseSensor ==
    \E cls \in SensorClasses :
        LET sensor == [id |-> nextId] @@ NewSensor(cls, 1, 1)
        IN  /\ nextId <= MaxSensors
            /\ sensors' = Brain_useSensor(PerBrain, sensor).sensors
            /\ nextId' = nextId + 1
            /\ calls' = PerCall("useSensor", cls, nextId, sensors)
            /\ UNCHANGED <<clock, memory, profile>>
            /\ PerRest

PerAddSensor ==
    \E cls \in SensorClasses :
        LET sensor == [id |-> nextId] @@ NewSensor(cls, 1, 1)
        IN  /\ nextId <= MaxSensors
            /\ sensors' = Perception_addSensor(sensors, sensor)
            /\ nextId' = nextId + 1
            /\ calls' = PerCall("addSensor", cls, nextId, sensors)
            /\ UNCHANGED <<clock, memory, profile>>
            /\ PerRest

PerRemoveSensor ==
    \E cls \in SensorClasses :
        /\ sensors' = Perception_removeSensor(sensors, cls)
        /\ calls' = PerCall("removeSensor", cls, 0, sensors)
        /\ UNCHANGED <<clock, memory, profile, nextId>>
        /\ PerRest

PerClearSensors ==
    /\ sensors' = Perception_clearSensors(sensors)
    /\ calls' = PerCall("clearSensors", "", 0, sensors)
    /\ UNCHANGED <<clock, memory, profile, nextId>>
    /\ PerRest

\* Perception.update: calls[1].ticked lists the instances it ticked
PerUpdate ==
    \E t \in clock .. MaxClock : \E w \in {BaseWorld, InvalidWorld} :
        LET b == Perception_update(
                     [PerBrain EXCEPT !.memory.time = t], w, 1)
            ticks == Only(b.log, {"sensor.tick"})
        IN  /\ clock' = t
            /\ memory' = b.memory
            /\ sensors' = b.sensors
            /\ calls' = <<[PerCall("update", "", 0, sensors)[1]
                              EXCEPT !.ticked =
                                  [i \in 1 .. Len(ticks) |->
                                      sensors[ticks[i][3]].id]]>>
            /\ UNCHANGED <<profile, nextId>>
            /\ PerRest

NextPerception ==
    \/ PerInstallProfile
    \/ PerUseSensor
    \/ PerAddSensor
    \/ PerRemoveSensor
    \/ PerClearSensors
    \/ PerUpdate

SpecPerception == InitPerception /\ [][NextPerception]_vars

Ids(sens) == {sens[i].id : i \in 1 .. Len(sens)}

OfClass(sens, cls) == {sens[i].id : i \in {j \in 1 .. Len(sens) :
                                             sens[j].cls = cls}}

\* C18: whatever calls were made, no two installed sensors have the same
\* class (nor are the same instance); addSensor and useSensor install the
\* sensor they are given and retire the installed instance of its class,
\* leaving every other sensor installed; update ticks the installed
\* instances, each once and in order, so a retired one is ticked no more.
C18_OnePerClass ==
    /\ \A i, j \in 1 .. Len(sensors) :
          (sensors[i].cls = sensors[j].cls \/ sensors[i].id = sensors[j].id)
          => i = j
    /\ (Len(calls) = 1 /\ calls[1].op \in {"addSensor", "useSensor"}) =>
          LET c == calls[1]
              old == OfClass(c.before, c.cls)
          IN  /\ OfClass(sensors, c.cls) = {c.id}
              /\ Ids(sensors) = (Ids(c.before) \ old) \cup {c.id}
    /\ (Len(calls) = 1 /\ calls[1].op = "update") =>
          calls[1].ticked = [i \in 1 .. Len(sensors) |-> sensors[i].id]

\* addSensor given a sensor of a class whose installed instance had fired,
\* with sensors of other classes beside it
C18_Witness ==
    /\ Len(calls) = 1 /\ calls[1].op = "addSensor"
    /\ OfClass(calls[1].before, calls[1].cls) # {}
    /\ Len(sensors) >= 2
    /\ calls[1].fired

---------------------------------------------------------------------------
(* The Arrival sensor in a Brain whose profile asks for it (the option     *)
(* arrivalSensor of CoreAI_CombatantProfile, with the defaults of the      *)
(* sensor's constructor).  One time unit is 2000 ms: the sensor's interval *)
(* of 500 ms is below the unit, the arrival lives one unit (2000 ms) and   *)
(* the cooldown is two (4000 ms).  The Brain's tick is its stamp, its      *)
(* prune and Perception.update; watch records the last write of arrivedPos *)
(* made by an Arrival sensor.                                              *)

arrivalProfile ==
    [name |-> "arrival", scoring |-> BaseProfileScoring,
     sensors |-> <<ArrivalSensor(0, 3, 1, 2)>>]

\* where the agent may stand: away from the points, on the edge of the
\* first point's radius, on the first point, on the second
ArrivalPositions == {PosV(0), PosV(1), PosV(4), PosV(8)}

ArrivalWorlds ==
    {InvalidWorld, DeadWorld}
    \cup {[myPos |-> pos] @@ BaseWorld : pos \in ArrivalPositions}

\* OngoingPlayer up to and including Perception.update
OngoingPlayer_perceive(b, w, t) ==
    IF ~w.valid THEN Entered(b, w)
    ELSE LET b1 == Brain_prune(Brain_stamp(Entered(b, w), t))
         IN  IF ~w.alive THEN b1
             ELSE Brain_perceive(Brain_target(b1, w), w)

NoArrival == [on |-> FALSE, at |-> 0, cooldownMs |-> 0]

InitArrival ==
    /\ clock = 1
    /\ memory = NewMemory
    /\ profile = arrivalProfile
    /\ sensors = arrivalProfile.sensors
    /\ watch = NoArrival
    /\ calls = <<>>
    /\ nextId = 0
    /\ units = <<>> /\ fired = <<>> /\ chosen = <<>>
    /\ current = <<>> /\ life = <<>> /\ pending = <<>>

ArrRest == UNCHANGED <<units, fired, chosen, current, nextId, life, pending>>

\* the writes of arrivedPos in a log
ArrivalWrites(log) ==
    {i \in 1 .. Len(log) :
        log[i][1] = "memory.set" /\ log[i][2] = "arrivedPos"}

\* the write of arrivedPos a tick's log holds, as the watch records it
Arrived(log, now, sens) ==
    IF ArrivalWrites(log) = {} THEN watch
    ELSE [on |-> TRUE, at |-> now, cooldownMs |-> sens[1].cooldownMs]

ArrTick ==
    \E t \in clock .. MaxTime : \E w \in ArrivalWorlds :
        LET b == OngoingPlayer_perceive(PerBrain, w, t)
        IN  /\ clock' = t
            /\ memory' = b.memory
            /\ sensors' = b.sensors
            /\ calls' = b.log
            /\ watch' = Arrived(b.log, t, sensors)
            /\ UNCHANGED profile
            /\ ArrRest

ArrInstallProfile ==
    LET b == Brain_installProfile(PerBrain, arrivalProfile)
    IN  /\ sensors' = b.sensors
        /\ profile' = b.profile
        /\ calls' = b.log
        /\ UNCHANGED <<clock, memory, watch>>
        /\ ArrRest

\* Brain.reset(): perception.reset() and memory.reset()
ArrReset ==
    /\ sensors' = Perception_reset(sensors)
    /\ memory' = Memory_reset(memory)
    /\ calls' = <<Log("reset", "", 0)>>
    /\ UNCHANGED <<clock, profile, watch>>
    /\ ArrRest

NextArrival == ArrTick \/ ArrInstallProfile \/ ArrReset

SpecArrival == InitArrival /\ [][NextArrival]_vars

\* C24: once an Arrival sensor has written arrivedPos on a tick at time t,
\* no Arrival sensor writes arrivedPos on a tick at a time before
\* t + cooldown, wherever the agent stands in between and also after
\* arrivedPos has expired; and a tick writes arrivedPos only when the
\* prune() of that tick left it empty.
C24_ArrivalCooldown ==
    [][(Len(calls') > 0 /\ calls'[1][1] = "OngoingPlayer"
        /\ ArrivalWrites(calls') # {}) =>
          /\ watch.on => clock' >= watch.at + watch.cooldownMs
          /\ ~Truthy(Memory_prune([memory EXCEPT !.time = clock'])
                         .data["arrivedPos"])]_vars

---------------------------------------------------------------------------
(* Actions (CoreAI_AAction) and the runner that ticks them.  An action is  *)
(* [cls, last, interval]; the runner's brain record carries them in the    *)
(* field actions.  Both intervals (200 ms, 500 ms) are one time unit.      *)

NewAction(cls, interval) == [cls |-> cls, last |-> 0, interval |-> interval]

SetTargetAction == NewAction("SetTarget", 1)

EnterVehicleAction == NewAction("EnterVehicle", 1)

SetTargetAction_update(b, w) ==
    IF ~w.valid THEN b
    ELSE LET enemy == Memory_get(b.memory, "closestEnemy")
         IN  Emit(b, <<Log("memory.get", "closestEnemy", 0),
                       Log("AISetTarget", "",
                           IF Truthy(enemy) /\ w.enemy = enemy THEN enemy[2]
                           ELSE 0)>>)

EnterVehicleAction_update(b, w) ==
    IF ~w.valid THEN b
    ELSE IF w.inVehicle THEN b
    ELSE LET b1 == Emit(b, <<Log("memory.get", "vehicleToDrive", 0)>>)
             vehicle == Memory_get(b.memory, "vehicleToDrive")
         IN  IF ~Truthy(vehicle) THEN b1
             ELSE IF w.occupied[vehicle[2]] THEN b1
             ELSE IF DistanceBetween(w.myPos, w.vehiclePos[vehicle[2]]) > 3
             THEN b1
             ELSE Emit(b1, <<Log("ForcePlayerToSeat", "", vehicle[2])>>)

Action_update(b, w, a) ==
    IF a.cls = "SetTarget" THEN SetTargetAction_update(b, w)
    ELSE EnterVehicleAction_update(b, w)

\* ActionRunner.tick from action i on
RECURSIVE ActionRunner_tick(_, _, _)
ActionRunner_tick(b, w, i) ==
    IF i > Len(b.actions) THEN b
    ELSE LET a == b.actions[i]
             t == AAction_tick(a, b.memory.time)
             b1 == [Emit(b, <<Log("action.tick", a.cls, i)>>)
                       EXCEPT !.actions[i] = t.unit]
         IN  IF ~t.update THEN ActionRunner_tick(b1, w, i + 1)
             ELSE ActionRunner_tick(
                      Action_update(
                          Emit(b1, <<Log("action.update", a.cls, i)>>),
                          w, t.unit),
                      w, i + 1)

---------------------------------------------------------------------------
(* The guarded methods called one by one: Perception.update (the sensors'   *)
(* ticks), ActionRunner.tick, the active behavior's enter() and tick(),     *)
(* and the Brain's tick for an agent that is invalid or dead.  The first    *)
(* entry of calls names the call and whether the agent was valid when it    *)
(* began, with the position the engine reported for it.                     *)

Began(op, w) ==
    <<Log(op, IF w.valid THEN "valid" ELSE "invalid", w.myPos[2])>>

\* an invalid agent, also one the engine still reports a position for, and
\* the living agent firing or standing on a way point
GuardWorlds(prof) ==
    {InvalidWorld, [myPos |-> PosV(4)] @@ InvalidWorld}
    \cup {w \in LivingWorlds(prof) : w.isFiring \/ w.myPos = PosV(4)}

GuardMemories ==
    {NewMemory,
     Memory_set(NewMemory, "roamPos", PosV(4), Num(MaxClock + 1)),
     Memory_set(NewMemory, "vehicleToDrive", VehicleV(1), Num(MaxClock + 1))}

GuardBehaviors ==
    {IdleBehavior(1), FightBehavior(1), DefendBehavior(1, PosV(4)),
     MoveToBehavior(1, PosV(4)), EnterVehicleBehavior(1, VehicleV(1))}

GuardBrain(w, op) ==
    [actions |-> units] @@ [Brain EXCEPT !.log = Began(op, w)]

InitGuard ==
    /\ clock = 0
    /\ memory \in GuardMemories
    /\ profile \in {infantryProfile, driverProfile}
    /\ sensors = profile.sensors
    /\ current \in GuardBehaviors
    /\ nextId = 2
    /\ life = [id \in {1} |-> "new"]
    /\ pending = <<>>
    /\ chosen = NoChoice
    /\ units = <<SetTargetAction, EnterVehicleAction>>
    /\ calls = <<>>
    /\ watch = <<>> /\ fired = <<>>

GuardSensorTick ==
    \E w \in GuardWorlds(profile) :
        LET b == Perception_update(GuardBrain(w, "Perception.update"), w, 1)
        IN  /\ memory' = b.memory
            /\ sensors' = b.sensors
            /\ calls' = b.log
            /\ UNCHANGED <<clock, watch, units, fired, chosen, profile,
                           current, nextId, life, pending>>

GuardActionTick ==
    \E w \in GuardWorlds(profile) :
        LET b == ActionRunner_tick(GuardBrain(w, "ActionRunner.tick"), w, 1)
        IN  /\ memory' = b.memory
            /\ units' = b.actions
            /\ calls' = b.log
            /\ UNCHANGED <<clock, watch, fired, chosen, profile, sensors,
                           current, nextId, life, pending>>

GuardEnter ==
    \E w \in GuardWorlds(profile) :
        LET b == Behavior_enter(GuardBrain(w, "Behavior.enter"), w, current)
        IN  /\ life[current.id] = "new"
            /\ memory' = b.memory
            /\ life' = b.life
            /\ pending' = b.pending
            /\ calls' = b.log
            /\ UNCHANGED <<clock, watch, units, fired, chosen, profile,
                           sensors, current, nextId>>

GuardUpdate ==
    \E w \in GuardWorlds(profile) :
        LET b == BehaviorController_update(
                     GuardBrain(w, "Behavior.tick"), w)
        IN  /\ life[current.id] = "entered"
            /\ memory' = b.memory
            /\ current' = b.current
            /\ calls' = b.log
            /\ UNCHANGED <<clock, watch, units, fired, chosen, profile,
                           sensors, nextId, life, pending>>

\* the Brain's tick for an agent that is invalid, or valid and dead (the
\* stamp and prune that move the time on)
GuardBrainTick ==
    \E t \in clock .. MaxClock :
      \E w \in {InvalidWorld, DeadWorld} :
        /\ clock' = t
        /\ Becomes(OngoingPlayer(Brain, w, t))

NextGuard ==
    \/ GuardSensorTick
    \/ GuardActionTick
    \/ GuardEnter
    \/ GuardUpdate
    \/ GuardBrainTick

SpecGuard == InitGuard /\ [][NextGuard]_vars

---------------------------------------------------------------------------
(* Reading the record of a tick of the Brain *)

IsTick == Len(calls) > 0 /\ calls[1][1] = "OngoingPlayer"

ValidTick == IsTick /\ calls[1][2] = "valid"

LivingTick == ValidTick /\ calls[1][3] = 1

MemoryReads == {"memory.get", "score"}

MemoryAccess == {"memory.get", "memory.set", "score"}

\* C5: on a tick where the winning row has a score above 0, its class is the
\* class of the active behavior and its stability predicate is absent or
\* answers true, the active instance is retained: the selector answers it,
\* no factory and no constructor runs, neither exit() nor enter() is invoked,
\* and it is still the active instance after the tick.
C5_StabilityKeepsInstance ==
    (/\ chosen.done
     /\ chosen.best.idx # 0 /\ chosen.best.score > 0
     /\ chosen.cls = chosen.cur.cls /\ chosen.keep)
    => /\ chosen.inst.id = chosen.cur.id
       /\ ~chosen.fresh /\ chosen.factory = 0
       /\ current.id = chosen.cur.id
       /\ At(calls, "exit") = {} /\ At(calls, "enter") = {}
       /\ At(calls, "factory") = {} /\ At(calls, "new") = {}

\* C5 as stated, for whatever score the winning row has: the winning row's
\* class is the class of the active behavior and its predicate is absent or
\* true, so the active instance is retained.
C5_AnyScore ==
    (/\ chosen.done
     /\ chosen.best.idx # 0
     /\ chosen.cls = chosen.cur.cls /\ chosen.keep)
    => /\ chosen.inst.id = chosen.cur.id
       /\ current.id = chosen.cur.id
       /\ At(calls, "exit") = {} /\ At(calls, "enter") = {}
       /\ At(calls, "factory") = {}

\* a MoveTo kept by a row whose stability predicate answered true
C5_Witness ==
    /\ chosen.done /\ chosen.best.score > 0
    /\ chosen.cls = chosen.cur.cls /\ chosen.keep
    /\ Entry_hasIsSame(profile.scoring[chosen.best.idx])
    /\ current.cls = "MoveTo" /\ current.id = chosen.cur.id

\* C6: change(next) invokes nothing and leaves the active instance when next
\* is the active instance; otherwise it invokes exit() on the old instance,
\* then makes next the active instance, then invokes enter() on next, in
\* that order and each once.
C6_ChangeProtocol ==
    LivingTick =>
        LET next == chosen.inst
            old == chosen.cur
            steps == Only(calls, {"change", "exit", "current", "enter"})
        IN  /\ current.id = next.id
            /\ IF next.id = old.id
               THEN steps = <<Log("change", next.cls, next.id)>>
               ELSE steps = <<Log("change", next.cls, next.id),
                              Log("exit", old.cls, old.id),
                              Log("current", next.cls, next.id),
                              Log("enter", next.cls, next.id)>>

\* a Fight replaced by another instance
C6_Witness ==
    /\ LivingTick /\ chosen.cur.cls = "Fight"
    /\ chosen.inst.id # chosen.cur.id /\ current.id = chosen.inst.id
    /\ life[chosen.cur.id] = "exited"

\* C7: every instance the controller made active was entered once and
\* before any tick; it is exited at most once; once exited it is not ticked,
\* not entered and not active again.  (life[id] turns "bad" on the first
\* call that breaks this order.)
C7_Lifecycle ==
    /\ \A id \in DOMAIN life : life[id] \in {"entered", "exited"}
    /\ \A id \in DOMAIN life : life[id] = "entered" <=> id = current.id

\* an instance was exited, and the one that replaced it ran its update()
C7_Witness ==
    /\ \E id \in DOMAIN life : life[id] = "exited"
    /\ LivingTick
    /\ Log("update", current.cls, current.id) \in
           {calls[i] : i \in 1 .. Len(calls)}
    /\ current.cls # "Idle"

\* C8: the controller holds one active instance in every state, a behavior
\* that has been entered and not exited; right after the Brain's constructor
\* it is an Idle whose enter() the constructor invoked.
C8_OneActiveBehavior ==
    /\ current.cls \in {"Idle", "Fight", "Defend", "MoveTo", "EnterVehicle"}
    /\ current.id \in DOMAIN life
    /\ Cardinality({id \in DOMAIN life : life[id] = "entered"}) = 1
    /\ life[current.id] = "entered"
    /\ (Len(calls) > 0 /\ calls[1][1] = "constructor")
       => /\ current.cls = "Idle"
          /\ \E i \in 1 .. Len(calls) :
                calls[i] = Log("enter", "Idle", current.id)

\* the state the constructor leaves
C8_Witness ==
    /\ Len(calls) > 0 /\ calls[1][1] = "constructor"
    /\ current.cls = "Idle" /\ life[current.id] = "entered"

\* C9: a tick of a valid, living agent stamps the clock, prunes, ticks every
\* installed sensor in order, chooses, changes and ticks the active
\* behavior, in this order; no memory access comes before the prune, and
\* every sensor write comes before the first score the selector reads.
C9_TickOrder ==
    LivingTick =>
        /\ Len(calls) >= 3
        /\ calls[2] = Log("stamp", "", memory.time)
        /\ calls[3] = Log("prune", "", 0)
        /\ At(calls, "stamp") = {2} /\ At(calls, "prune") = {3}
        /\ Only(calls, {"sensor.tick"}) =
               [i \in 1 .. Len(sensors) |->
                   Log("sensor.tick", sensors[i].cls, i)]
        /\ Cardinality(At(calls, "chooseNextBehavior")) = 1
        /\ Cardinality(At(calls, "change")) = 1
        /\ Cardinality(At(calls, "tick")) = 1
        /\ LET c == CHOOSE i \in At(calls, "chooseNextBehavior") : TRUE
               g == CHOOSE i \in At(calls, "change") : TRUE
               k == CHOOSE i \in At(calls, "tick") : TRUE
           IN  /\ 3 < c /\ c < g /\ g < k
               /\ \A i \in At(calls, "sensor.tick") \cup
                           At(calls, "sensor.update") : 3 < i /\ i < c
               /\ \A i \in At(calls, "score") : c < i /\ i < g
               /\ \A i \in c + 1 .. g - 1 :
                     calls[i][1] \in {"score", "factory", "new"}
               /\ \A i \in At(calls, "memory.set") : i < c \/ g < i
        /\ \A i \in 1 .. Len(calls) : calls[i][1] \in MemoryAccess => i > 3

\* a tick in which a sensor wrote memory and the selector then replaced the
\* active behavior
C9_Witness ==
    /\ LivingTick
    /\ \E i, j \in 1 .. Len(calls) :
          /\ calls[i][1] = "sensor.update" /\ calls[j][1] = "memory.set"
          /\ i < j /\ \A c \in At(calls, "chooseNextBehavior") : j < c
    /\ At(calls, "score") # {} /\ At(calls, "factory") # {}

\* C10: a tick of a valid agent calls prune() once, before every read of
\* memory made in the tick; a tick of an invalid agent returns at once: it
\* calls no prune() and touches no memory.
C10_PruneOncePerValidTick ==
    IsTick =>
        IF ValidTick
        THEN /\ Cardinality(At(calls, "prune")) = 1
             /\ \A p \in At(calls, "prune") :
                   \A i \in 1 .. Len(calls) :
                       calls[i][1] \in MemoryAccess => p < i
        ELSE calls = <<Log("OngoingPlayer", "invalid", 0)>>

\* C10 as stated: every tick, whatever the agent, calls prune() once, before
\* every read of memory.
C10_PruneOnceEveryTick ==
    IsTick =>
        /\ Cardinality(At(calls, "prune")) = 1
        /\ \A p \in At(calls, "prune") :
              \A i \in 1 .. Len(calls) :
                  calls[i][1] \in MemoryReads => p < i

\* a tick of a valid but dead agent that pruned an expired key
C10_Witness ==
    /\ ValidTick /\ ~LivingTick
    /\ At(calls, "prune") # {}
    /\ memory.time > 0 /\ memory.data["isInBattle"] = Null

C12_Reset ==
    [][(Len(calls') > 0 /\ calls'[1][1] = "reset") =>
          /\ memory'.time = 0
          /\ memory'.data = InitialData
          /\ DOMAIN memory'.expirations = {}
          /\ current'.cls = "Idle"
          /\ current'.id # current.id
          /\ current'.id \notin DOMAIN life
          /\ life'[current.id] = "exited"
          /\ life'[current'.id] = "entered"
          /\ Only(calls', {"exit", "new", "factory", "current", "enter"}) =
                 <<Log("exit", current.cls, current.id),
                   Log("new", "Idle", current'.id),
                   Log("current", "Idle", current'.id),
                   Log("enter", "Idle", current'.id)>>]_vars

\* a reset that found an Idle active and replaced it by another Idle
C12_Witness ==
    /\ Len(calls) > 1 /\ calls[1][1] = "reset"
    /\ calls[2][1] = "exit" /\ calls[2][2] = "Idle"
    /\ current.cls = "Idle" /\ current.id # calls[2][3]
    /\ life[calls[2][3]] = "exited"

\* C17: Brain.reset() returns every installed sensor's last-fired time to 0,
\* so that on the first tick after it, made for a living agent at a time
\* not before the sensors' interval, every sensor's update() is invoked.
C17_ResetNeverFired ==
    [][/\ calls'[1][1] = "reset" =>
             \A i \in 1 .. Len(sensors') : sensors'[i].last = 0
       /\ (/\ calls[1][1] = "reset"
           /\ calls'[1] = Log("OngoingPlayer", "valid", 1)
           /\ \A i \in 1 .. Len(sensors) : clock' >= sensors[i].interval)
          => \A i \in 1 .. Len(sensors) :
                Log("sensor.update", sensors[i].cls, i) \in
                    {calls'[j] : j \in 1 .. Len(calls')}]_vars

EngineCommands ==
    {"AIIdleBehavior", "AIDefendPositionBehavior", "AIBattlefieldBehavior",
     "AIMoveToBehavior", "AIValidatedMoveToBehavior", "AISetMoveSpeed",
     "AISetTarget", "ForcePlayerToSeat", "ForcePlayerExitVehicle", "RayCast"}

\* C19: when an enter() that disembarked the agent and waited two frames
\* resumes (Fight.enter, MoveTo's driving branch) and finds the agent
\* invalid, it issues no further engine command for it.
C19_NoCommandAfterInvalidResume ==
    (Len(calls) > 0 /\ calls[1][1] = "resume") =>
        \A i \in 2 .. Len(calls) :
            ~(calls[i][1] \in EngineCommands /\ calls[i][2] = "invalid")

GuardedCalls ==
    {"Perception.update", "ActionRunner.tick", "Behavior.enter",
     "Behavior.tick", "OngoingPlayer"}

\* C20: a sensor tick, an action tick, a behavior's enter() or a behavior's
\* tick that begins while the agent is invalid writes nothing to memory and
\* issues no engine command; a Brain tick that begins while the agent is
\* invalid leaves the memory, its expiries and clock, and the active
\* behavior as they were.
C20_InvalidNoOp ==
    [][(/\ Len(calls') > 0
        /\ calls'[1][1] \in GuardedCalls
        /\ calls'[1][2] = "invalid") =>
          /\ memory'.data = memory.data
          /\ memory'.expirations = memory.expirations
          /\ \A i \in 1 .. Len(calls') :
                calls'[i][1] \notin EngineCommands \cup {"memory.set"}
          /\ calls'[1][1] = "OngoingPlayer" =>
                /\ memory' = memory
                /\ current' = current
                /\ sensors' = sensors
                /\ Len(calls') = 1]_vars

\* the update() of a MoveTo ran for an invalid agent reported within the
\* arrival radius of its target, and roamPos stayed in memory
C20_Witness ==
    /\ Len(calls) > 1
    /\ calls[1] = Log("Behavior.tick", "invalid", 4)
    /\ current.cls = "MoveTo" /\ current.target = PosV(4)
    /\ calls[Len(calls)] = Log("update", "MoveTo", current.id)
    /\ Truthy(memory.data["roamPos"])

\* C21: across ticks, hooks, OnAIMoveFinished, installProfile and reset,
\* isInBattle goes from true to a value that is not true only in a tick's
\* prune() made at or after its recorded expiry, or in reset(); every write
\* of the Fight sensor stores true, and while isInBattle is true its expiry
\* stays recorded.
C21_OnlyExpiryClearsBattle ==
    [][/\ (memory.data["isInBattle"] = True
           /\ memory'.data["isInBattle"] # True) =>
              /\ Len(calls') > 0
              /\ \/ calls'[1][1] = "reset"
                 \/ /\ calls'[1][1] = "OngoingPlayer"
                    /\ At(calls', "prune") # {}
                    /\ "isInBattle" \in DOMAIN memory.expirations
                    /\ memory'.time >= memory.expirations["isInBattle"]
                    /\ ~Memory_has(memory', "isInBattle")
       /\ \A i \in 1 .. Len(calls') :
             (calls'[i][1] = "memory.set" /\ calls'[i][2] = "isInBattle")
             => calls'[i][3] = 1
       /\ memory'.data["isInBattle"] = True
             => "isInBattle" \in DOMAIN memory'.expirations]_vars

\* a tick whose prune() emptied isInBattle and whose Fight sensor then ran
\* its update() without writing it back
C21_Witness ==
    /\ LivingTick
    /\ memory.data["isInBattle"] = Null
    /\ "isInBattle" \notin DOMAIN memory.expirations
    /\ \E i \in 1 .. Len(calls) :
          calls[i][1] = "sensor.update" /\ calls[i][2] = "Fight"

Hooks == {"onDamaged", "onRayCastHit"}

\* C22: the memory a damage hook or a raycast-hit hook leaves (every value,
\* every expiry, the clock) is the memory it leaves when the same event is
\* handled once more right away, with no tick in between: a hook step that
\* repeats the hook step before it changes nothing in memory.
C22_HooksIdempotent ==
    [][/\ (Len(calls') > 0 /\ calls'[1][1] = "onDamaged") =>
             Brain_OnPlayerDamaged(Brain', BaseWorld).memory = memory'
       /\ (Len(calls') > 0 /\ calls'[1][1] = "onRayCastHit") =>
             \A w \in RayCastHits :
                 RayCastHit(w) = calls'[1][2]
                 => Brain_OnRayCastHit(Brain', w).memory = memory'
       /\ (/\ Len(calls) > 0 /\ Len(calls') > 0
           /\ calls[1][1] \in Hooks /\ calls'[1] = calls[1])
          => memory' = memory]_vars

\* a ray cast hit near the enemy was handled after the clock had moved on,
\* and isInBattle expires one ttl after the last tick's time
C22_Witness ==
    /\ Len(calls) > 1 /\ calls[1][1] = "onRayCastHit" /\ calls[1][2] = "near"
    /\ calls[2] = Log("memory.set", "isInBattle", 1)
    /\ memory.time > 0
    /\ memory.data["isInBattle"] = True
    /\ memory.expirations["isInBattle"] =
           memory.time + sensors[calls[1][3]].ttl

\* C25: every engine command of a behavior is issued by the active
\* instance: when a suspended enter() wakes from its waits and issues its
\* commands (force-reseat, then battlefield-combat or defend-position), the
\* instance it belongs to is the active one and has not been exited.
C25_OnlyActiveBehaviorCommands ==
    (Len(calls) > 1 /\ calls[1][1] = "resume"
     /\ \E i \in 2 .. Len(calls) : calls[i][1] \in EngineCommands)
    => /\ calls[1][3] = current.id
       /\ life[calls[1][3]] = "entered"

\* C26: with a Fight active and isInBattle at or past its expiry (or
\* already emptied by the prune of a dead agent's tick), the first tick of a
\* living agent in which neither hook nor sensor writes isInBattle leaves
\* the Fight: exit() is invoked on it and another instance is entered and
\* active.  update() and exit() of a Fight do nothing: no write of memory,
\* no engine command and no change of behavior follows them.
C26_FightEndsOnExpiry ==
    [][/\ (/\ current.cls = "Fight"
           /\ Len(calls') > 0 /\ calls'[1] = Log("OngoingPlayer", "valid", 1)
           /\ \/ ~Truthy(memory.data["isInBattle"])
              \/ /\ "isInBattle" \in DOMAIN memory.expirations
                 /\ clock' >= memory.expirations["isInBattle"]
           /\ \A i \in 1 .. Len(calls') :
                 ~(calls'[i][1] = "memory.set" /\ calls'[i][2] = "isInBattle"))
          => /\ current'.cls # "Fight"
             /\ current'.id # current.id
             /\ life'[current.id] = "exited"
             /\ life'[current'.id] = "entered"
             /\ \E i, j \in 1 .. Len(calls') :
                   /\ i < j
                   /\ calls'[i] = Log("exit", "Fight", current.id)
                   /\ calls'[j] = Log("enter", current'.cls, current'.id)
       /\ \A i \in 1 .. Len(calls') :
             (calls'[i][1] \in {"update", "exit"} /\ calls'[i][2] = "Fight")
             => \/ i = Len(calls')
                \/ calls'[i + 1][1] \in {"current", "new"}]_vars

\* a Fight was left on a tick whose prune() emptied isInBattle, and the
\* selector fell back to a new Idle
C26_Witness ==
    /\ LivingTick /\ chosen.done /\ chosen.cur.cls = "Fight"
    /\ memory.data["isInBattle"] = Null
    /\ current.cls = "Idle" /\ current.id = chosen.inst.id
    /\ life[chosen.cur.id] = "exited"
    /\ Log("exit", "Fight", chosen.cur.id) \in
           {calls[i] : i \in 1 .. Len(calls)}

MoveToRows == {"closestEnemy", "vehicleToDrive", "roamPos"}

\* a tick on which a MoveTo was active and a row that steers a MoveTo won
MoveToRowWon ==
    /\ LivingTick /\ chosen.done
    /\ chosen.cur.cls = "MoveTo"
    /\ chosen.best.idx # 0 /\ chosen.best.score > 0
    /\ profile.scoring[chosen.best.idx].kind \in MoveToRows

\* C27: with the closest-enemy, vehicle or roam row winning and a MoveTo
\* active, the MoveTo is retained only if the distance between its target
\* and the row's target position is exactly 0; for any positive distance a
\* new instance is constructed, exit() of the old and enter() of the new one
\* are invoked on that tick, and the new instance is a MoveTo to the row's
\* target position, or for the vehicle row an EnterVehicle.
C27_ZeroTolerance ==
    MoveToRowWon =>
        LET d == DistanceBetween(chosen.cur.target, chosen.pos)
            kind == profile.scoring[chosen.best.idx].kind
        IN  /\ chosen.inst.id = chosen.cur.id => d = 0
            /\ d > 0 =>
                  /\ chosen.fresh /\ chosen.inst.id # chosen.cur.id
                  /\ current.id = chosen.inst.id
                  /\ chosen.inst.cls = chosen.cls
                  /\ chosen.inst.cls \in {"MoveTo", "EnterVehicle"}
                  /\ chosen.inst.cls = "MoveTo"
                        => chosen.inst.target = chosen.pos
                  /\ chosen.inst.cls = "EnterVehicle"
                        => kind = "vehicleToDrive"
                  /\ Only(calls, {"exit", "enter"}) =
                         <<Log("exit", "MoveTo", chosen.cur.id),
                           Log("enter", chosen.inst.cls, chosen.inst.id)>>

\* C27 as stated: for any positive distance the new instance is a MoveTo.
C27_FreshMoveTo ==
    (MoveToRowWon /\ DistanceBetween(chosen.cur.target, chosen.pos) > 0)
    => chosen.fresh /\ chosen.inst.cls = "MoveTo"

\* a MoveTo to the vehicle replaced by a MoveTo to the enemy, 4 away from
\* the old target
C27_Witness ==
    /\ MoveToRowWon
    /\ profile.scoring[chosen.best.idx].kind = "closestEnemy"
    /\ DistanceBetween(chosen.cur.target, chosen.pos) = 4
    /\ chosen.fresh /\ current.cls = "MoveTo"
    /\ current.target = chosen.pos
    /\ life[chosen.cur.id] = "exited"

---------------------------------------------------------------------------
(* MoveTo.update() and MoveTo.exit() called directly on an entered MoveTo,  *)
(* with the agent anywhere on the line and roamPos unset, or set (with an   *)
(* expiry) to the MoveTo's target or to the other way point.                *)

MoveToWorlds ==
    {[myPos |-> PosV(x)] @@ BaseWorld : x \in 0 .. MaxPos}
    \cup {[myPos |-> PosV(x)] @@ InvalidWorld : x \in 0 .. MaxPos}

MoveToMemories ==
    {NewMemory}
    \cup {Memory_set(NewMemory, "roamPos", WayPoints[i], Num(1)) :
             i \in 1 .. Len(WayPoints)}

\* a MoveTo to either way point, validated or direct
MoveTos ==
    {[MoveToBehavior(1, WayPoints[i]) EXCEPT !.validated = v] :
        i \in 1 .. Len(WayPoints), v \in BOOLEAN}

InitMoveTo ==
    /\ clock = 0
    /\ memory \in MoveToMemories
    /\ profile = driverProfile
    /\ sensors = driverProfile.sensors
    /\ current \in MoveTos
    /\ nextId = 2
    /\ life = [id \in {1} |-> "entered"]
    /\ pending = <<>>
    /\ chosen = NoChoice
    /\ calls = <<>>
    /\ watch = <<>> /\ units = <<>> /\ fired = <<>>

MoveToRest ==
    UNCHANGED <<clock, watch, units, fired, chosen, profile, sensors,
                current, nextId, pending>>

MoveToUpdate ==
    \E w \in MoveToWorlds :
        LET b == Behavior_update(
                     [Brain EXCEPT !.log = Began("MoveTo.update", w)],
                     w, current)
        IN  /\ life[current.id] = "entered"
            /\ memory' = b.memory
            /\ life' = b.life
            /\ calls' = b.log
            /\ MoveToRest

MoveToExit ==
    LET b == Behavior_exit(Brain, current)
    IN  /\ life[current.id] = "entered"
        /\ memory' = b.memory
        /\ life' = b.life
        /\ calls' = b.log
        /\ MoveToRest

\* the Roam sensor's write: roamPos set again once it is empty
MoveToRoam ==
    \E i \in 1 .. Len(WayPoints) :
        /\ ~Truthy(memory.data["roamPos"])
        /\ memory' = Memory_set(memory, "roamPos", WayPoints[i], Num(1))
        /\ calls' = <<Log("memory.set", "roamPos", WayPoints[i][2])>>
        /\ UNCHANGED life
        /\ MoveToRest

NextMoveTo == MoveToUpdate \/ MoveToExit \/ MoveToRoam

SpecMoveTo == InitMoveTo /\ [][NextMoveTo]_vars

\* C28: MoveTo.update() run with a valid agent empties roamPos and removes
\* its expiry when roamPos is set and the agent is less than 3 units from
\* the behavior's target, and otherwise (roamPos empty, or the agent 3 units
\* or more away) leaves memory as it was; exit() leaves memory as it was.
C28_MoveToArrival ==
    [][/\ (Len(calls') > 0 /\ calls'[1][1] = "MoveTo.update"
           /\ calls'[1][2] = "valid") =>
             IF /\ Truthy(memory.data["roamPos"])
                /\ DistanceBetween(PosV(calls'[1][3]), current.target) < 3
             THEN /\ memory'.data = [memory.data EXCEPT !["roamPos"] = Null]
                  /\ memory'.expirations =
                         MapDelete(memory.expirations, "roamPos")
                  /\ memory'.time = memory.time
             ELSE memory' = memory
       /\ (Len(calls') > 0 /\ calls'[1][1] = "exit") => memory' = memory]_vars

\* update() ran 2 units from the target and emptied roamPos
C28_Witness ==
    /\ Len(calls) > 0
    /\ calls[1] = Log("MoveTo.update", "valid", current.target[2] - 2)
    /\ calls[Len(calls)] = Log("memory.set", "roamPos", 0)
    /\ memory.data["roamPos"] = Null
    /\ "roamPos" \notin DOMAIN memory.expirations

\* C29: a MoveTo that the closest-enemy row or the vehicle row constructed
\* (its target is the enemy's or the vehicle's position) never empties
\* roamPos: no tick in which such a MoveTo is made and updated writes
\* null to roamPos.
C29_OtherKeysLeaveRoamPos ==
    (/\ LivingTick /\ chosen.done /\ chosen.fresh /\ chosen.factory # 0
     /\ profile.scoring[chosen.factory].kind \in
            {"closestEnemy", "vehicleToDrive"}
     /\ chosen.inst.cls = "MoveTo")
    => \A i \in 1 .. Len(calls) : calls[i] # Log("memory.set", "roamPos", 0)

\* C30: the enter() of an EnterVehicle seats the agent and empties
\* vehicleToDrive only for a valid agent that found the driver seat free;
\* when it found the seat taken it issues no engine command and leaves
\* vehicleToDrive and its expiry as they were; the tick of an entered
\* EnterVehicle (its update()) issues no engine command and leaves the
\* memory as it was.
C30_EnterVehicleSeat ==
    [][(/\ Len(calls') > 0
        /\ current.cls = "EnterVehicle"
        /\ calls'[1][1] \in {"Behavior.enter", "Behavior.tick"}) =>
          LET seat(answer) ==
                  \E i \in 1 .. Len(calls') :
                      calls'[i] = Log("IsVehicleSeatOccupied", answer,
                                      current.target[2])
              quiet == \A i \in 1 .. Len(calls') :
                          calls'[i][1] \notin EngineCommands
              kept == /\ memory'.data["vehicleToDrive"]
                           = memory.data["vehicleToDrive"]
                      /\ ("vehicleToDrive" \in DOMAIN memory'.expirations)
                           = ("vehicleToDrive" \in DOMAIN memory.expirations)
                      /\ "vehicleToDrive" \in DOMAIN memory.expirations =>
                            memory'.expirations["vehicleToDrive"]
                                = memory.expirations["vehicleToDrive"]
          IN  /\ calls'[1][1] = "Behavior.enter" =>
                    /\ (~quiet \/ ~kept
                        \/ \E i \in 1 .. Len(calls') :
                              calls'[i] = Log("memory.set",
                                              "vehicleToDrive", 0))
                          => /\ calls'[1][2] = "valid"
                             /\ seat("free")
                             /\ \A i \in 1 .. Len(calls') :
                                   calls'[i][1] \in EngineCommands =>
                                       calls'[i][1] = "ForcePlayerToSeat"
                    /\ seat("taken") => quiet /\ kept
              /\ calls'[1][1] = "Behavior.tick" =>
                    quiet /\ memory' = memory]_vars

\* the enter() of an EnterVehicle found the driver seat taken and left the
\* vehicle in memory
C30_Witness ==
    /\ Len(calls) > 0
    /\ calls[1][1] = "Behavior.enter" /\ calls[1][2] = "valid"
    /\ current.cls = "EnterVehicle"
    /\ calls[Len(calls)]
           = Log("IsVehicleSeatOccupied", "taken", current.target[2])
    /\ Truthy(memory.data["vehicleToDrive"])
    /\ "vehicleToDrive" \in DOMAIN memory.expirations

---------------------------------------------------------------------------
(* A Brain holding a profile with the Arrival sensor (default interval,    *)
(* threshold 3, ttl one unit of 2000 ms, cooldown two units), ticked for   *)
(* an agent that walks between the way points.                             *)

\* Date.now() is never 0: the first tick comes at time 1 or later
InitDefend ==
    /\ clock = 1
    /\ LET b == Brain_constructor(arrivalProfile, BaseWorld)
       IN  /\ memory = b.memory
           /\ profile = b.profile
           /\ sensors = b.sensors
           /\ current = b.current
           /\ nextId = b.nextId
           /\ life = b.life
           /\ pending = b.pending
           /\ chosen = b.chosen
           /\ calls = b.log
    /\ watch = <<>> /\ units = <<>> /\ fired = <<>>

DefTick ==
    \E t \in clock .. MaxTime : \E w \in ArrivalWorlds :
        /\ clock' = t
        /\ Becomes(OngoingPlayer(Brain, w, t))
        /\ UNCHANGED <<watch, units, fired>>

NextDefend == DefTick

SpecDefend == InitDefend /\ [][NextDefend]_vars

\* C31: at the end of a tick that leaves a Defend active and arrivedPos set,
\* the position the active Defend was constructed for (the one its enter()
\* commanded) is the position arrivedPos holds.
C31_DefendAtArrivedPos ==
    (/\ Len(calls) > 0 /\ calls[1][1] = "OngoingPlayer"
     /\ current.cls = "Defend"
     /\ Truthy(memory.data["arrivedPos"]))
    => current.target = memory.data["arrivedPos"]

\* C32: a tick that follows a damage event handled by an installed Fight
\* sensor, and whose time is less than the sensor's ttl after the time of
\* the last tick before the event, does not prune isInBattle: the expiry
\* the event recorded lies after the tick's time.
C32_DamageKeepsBattle ==
    [][(/\ Len(calls) > 0 /\ calls[1][1] = "onDamaged"
        /\ Len(calls') > 0 /\ calls'[1][1] = "OngoingPlayer"
        /\ At(calls', "prune") # {}
        /\ clock' < clock + sensors[calls[1][3]].ttl) =>
          /\ "isInBattle" \in DOMAIN memory.expirations
          /\ clock' < memory.expirations["isInBattle"]]_vars

\* C33: after every operation of the Brain, each key with a recorded expiry
\* holds a non-empty value, and each key a sensor, a behavior or
\* OnAIMoveFinished wrote null to in the operation, and that is still empty,
\* has no recorded expiry.
C33_ExpiryImpliesValue ==
    /\ \A k \in DOMAIN memory.expirations : Memory_has(memory, k)
    /\ \A i \in 1 .. Len(calls) :
          (/\ calls[i][1] = "memory.set" /\ calls[i][3] = 0
           /\ ~Memory_has(memory, calls[i][2]))
          => calls[i][2] \notin DOMAIN memory.expirations

\* the update() of a MoveTo emptied roamPos, which held a way point with an
\* expiry still ahead, while another key keeps its expiry
C33_Witness ==
    /\ LivingTick
    /\ calls[Len(calls)] = Log("memory.set", "roamPos", 0)
    /\ \E i \in 1 .. Len(calls) : calls[i][1] = "prune"
    /\ ~Memory_has(memory, "roamPos")
    /\ "roamPos" \notin DOMAIN memory.expirations
    /\ DOMAIN memory.expirations # {}

---------------------------------------------------------------------------
(* The sensors' update() called one by one: a Closest-enemy sensor with a  *)
(* ttl of two units, a Vehicle-to-drive sensor with radius 5 and a Roam    *)
(* sensor, each given a world of its own kind; between the calls the       *)
(* Brain's tick stamps the memory and prunes it.  watch holds the world    *)
(* the last update() was given.                                            *)

\* what the engine may answer a sensor: an invalid agent; no enemy, or one
\* of two enemies, noticed or missed, far or at the agent's position; the
\* agent in a vehicle, or two vehicles free or taken at either way point;
\* the agent still, slow or fast, moving along the way points or across
\* them, between, on or before them
SensorWorlds(cls) ==
    {InvalidWorld} \cup
    {d @@ [playerPos |-> <<PosV(4), PosV(4)>>] @@ BaseWorld :
        d \in IF cls = "ClosestEnemy"
              THEN [enemy : {Null, PlayerV(1), PlayerV(2)},
                    missed : BOOLEAN, myPos : {PosV(0), PosV(4)}]
              ELSE IF cls = "VehicleToDrive"
              THEN {[inVehicle |-> TRUE]} \cup
                   [vehiclePos : {<<PosV(8), PosV(4)>>,
                                  <<PosV(4), PosV(8)>>},
                    occupied : {<<a, b>> : a \in BOOLEAN, b \in BOOLEAN},
                    myPos : {PosV(0), PosV(3), PosV(4)}]
              ELSE [speed : {"still"}, faceDir : {-1, 1},
                    myPos : {PosV(0), PosV(4)}]
                   \cup [speed : {"slow", "fast"}, velDir : {-1, 1, Across},
                         myPos : {PosV(0), PosV(4), PosV(6), PosV(8)},
                         pick : {1, 2}]}

InitSensors ==
    /\ clock = 1
    /\ memory = [NewMemory EXCEPT !.time = 1]
    /\ sensors = <<NewSensor("ClosestEnemy", 1, 2),
                   [NewSensor("VehicleToDrive", 1, 1) EXCEPT !.radius = 5],
                   NewSensor("Roam", 1, 1)>>
    /\ watch = <<>>
    /\ calls = <<>>
    /\ nextId = 0
    /\ units = <<>> /\ fired = <<>> /\ chosen = <<>> /\ profile = <<>>
    /\ current = <<>> /\ life = <<>> /\ pending = <<>>

SenRest ==
    UNCHANGED <<units, fired, chosen, profile, current, nextId, life,
                pending>>

SenUpdate ==
    \E i \in 1 .. Len(sensors) : \E w \in SensorWorlds(sensors[i].cls) :
        LET u == Sensor_update(sensors[i], memory, w)
        IN  /\ memory' = u.m
            /\ sensors' = [sensors EXCEPT ![i] = u.sensor]
            /\ calls' = <<Log("sensor.update", sensors[i].cls, i)>> \o u.log
            /\ watch' = w
            /\ UNCHANGED clock
            /\ SenRest

SenTick ==
    \E t \in clock .. MaxClock + 1 :
        /\ clock' = t
        /\ memory' = Memory_prune([memory EXCEPT !.time = t])
        /\ calls' = <<Log("stamp", "", t), Log("prune", "", 0)>>
        /\ watch' = <<>>
        /\ UNCHANGED sensors
        /\ SenRest

NextSensors == SenUpdate \/ SenTick

SpecSensors == InitSensors /\ [][NextSensors]_vars

\* the update() of the sensor of class cls has just run
Updated(log, cls) ==
    Len(log) > 0 /\ log[1][1] = "sensor.update" /\ log[1][2] = cls

\* key k holds the same value and the same expiry, or none, in m and n
SameField(m, n, k) ==
    /\ m.data[k] = n.data[k]
    /\ (k \in DOMAIN m.expirations) = (k \in DOMAIN n.expirations)
    /\ k \in DOMAIN m.expirations => m.expirations[k] = n.expirations[k]

FreeInRadius(w, radius) ==
    {v \in 1 .. Len(w.vehiclePos) :
        /\ ~w.occupied[v]
        /\ DistanceBetween(w.myPos, w.vehiclePos[v]) <= radius}

\* C36: an update() of the Vehicle-to-drive sensor for an agent in a
\* vehicle, or with no vehicle within the radius whose driver seat is free,
\* leaves vehicleToDrive empty without an expiry; otherwise it leaves in
\* vehicleToDrive a vehicle within the radius with a free driver seat that
\* no other such vehicle is nearer than, with the expiry time + ttl.
C36_VehicleToDriveWrites ==
    [][(Updated(calls', "VehicleToDrive") /\ watch'.valid) =>
          LET w == watch'
              free == FreeInRadius(w, sensors[calls'[1][3]].radius)
              dist(v) == DistanceBetween(w.myPos, w.vehiclePos[v])
          IN  IF w.inVehicle \/ free = {}
              THEN /\ memory'.data["vehicleToDrive"] = Null
                   /\ "vehicleToDrive" \notin DOMAIN memory'.expirations
              ELSE /\ \E v \in free :
                         /\ \A u \in free : dist(v) <= dist(u)
                         /\ memory'.data["vehicleToDrive"] = VehicleV(v)
                   /\ "vehicleToDrive" \in DOMAIN memory'.expirations
                   /\ memory'.expirations["vehicleToDrive"]
                        = memory.time + sensors[calls'[1][3]].ttl]_vars

\* both vehicles are free and within the radius, the second one nearer, and
\* the sensor stored the second
C36_Witness ==
    /\ Updated(calls, "VehicleToDrive")
    /\ watch.valid /\ ~watch.inVehicle
    /\ FreeInRadius(watch, sensors[2].radius) = {1, 2}
    /\ DistanceBetween(watch.myPos, watch.vehiclePos[2])
         < DistanceBetween(watch.myPos, watch.vehiclePos[1])
    /\ memory.data["vehicleToDrive"] = VehicleV(2)

\* the way points a moving agent of world w may be sent to when a point is
\* excluded exactly for a negative dot product with the forward direction:
\* those at least 3 away whose direction is not against the velocity
NotBehind(w) ==
    {WayPoints[i] : i \in
        {j \in 1 .. Len(WayPoints) :
            /\ DistanceBetween(w.myPos, WayPoints[j]) >= 3
            /\ DotProduct(w.velDir,
                          DirectionTowards(w.myPos, WayPoints[j])) >= 0}}

\* C37: an update() of the Roam sensor with roamPos empty for an agent
\* moving faster than 0.5 writes one of the points whose direction has no
\* negative dot product with the direction of movement, and writes nothing
\* when there is no such point; an update() with roamPos set writes
\* nothing.
C37_RoamExcludesBehind ==
    [][(Updated(calls', "Roam") /\ watch'.valid) =>
          /\ (~Truthy(memory.data["roamPos"]) /\ watch'.speed = "fast") =>
                IF NotBehind(watch') = {}
                THEN memory' = memory
                ELSE memory'.data["roamPos"] \in NotBehind(watch')
          /\ Truthy(memory.data["roamPos"]) => memory' = memory]_vars

\* C35: an update() of the Closest-enemy sensor that finds the stored enemy
\* leaves the expiry of closestEnemy as the detecting write recorded it; a
\* tick at or after that expiry empties closestEnemy and a tick before it
\* does not; and closestEnemy goes from empty to an enemy only in an
\* update() that noticed the enemy (the enemy at no distance, or not
\* missed).
C35_NoRefresh ==
    [][/\ (/\ Updated(calls', "ClosestEnemy") /\ watch'.valid
           /\ Truthy(watch'.enemy)
           /\ memory.data["closestEnemy"] = watch'.enemy) =>
              /\ "closestEnemy" \in DOMAIN memory'.expirations
              /\ SameField(memory, memory', "closestEnemy")
       /\ (/\ Len(calls') > 0 /\ calls'[1][1] = "stamp"
           /\ "closestEnemy" \in DOMAIN memory.expirations) =>
              IF clock' >= memory.expirations["closestEnemy"]
              THEN /\ memory'.data["closestEnemy"] = Null
                   /\ "closestEnemy" \notin DOMAIN memory'.expirations
              ELSE SameField(memory, memory', "closestEnemy")
       /\ (/\ ~Truthy(memory.data["closestEnemy"])
           /\ Truthy(memory'.data["closestEnemy"])) =>
              /\ Updated(calls', "ClosestEnemy")
              /\ memory'.data["closestEnemy"] = watch'.enemy
              /\ ~(/\ watch'.missed
                   /\ DistanceBetween(watch'.myPos,
                          watch'.playerPos[watch'.enemy[2]]) > 0)]_vars

\* two units after the first tick, when an enemy noticed then has expired,
\* the sensor found an enemy, missed it, and closestEnemy stays empty
C35_Witness ==
    /\ Updated(calls, "ClosestEnemy")
    /\ watch.valid /\ Truthy(watch.enemy) /\ watch.missed
    /\ memory.time = 3
    /\ ~Truthy(memory.data["closestEnemy"])
    /\ "closestEnemy" \notin DOMAIN memory.expirations

---------------------------------------------------------------------------
(* A sensor and an action with the same interval, ticked side by side by   *)
(* the throttle harness on the same times for the same agent.              *)

InitPair ==
    /\ clock = 0
    /\ \E i \in 0 .. MaxInterval :
           units = [x \in {"sensor", "action"} |-> NewUnit(i)]
    /\ fired = [x \in {"sensor", "action"} |-> NeverFired]
    /\ calls = <<>>
    /\ memory = NewMemory /\ watch = <<>> /\ chosen = <<>>
    /\ profile = "none" /\ sensors = <<>> /\ current = <<>> /\ nextId = 0
    /\ life = <<>> /\ pending = <<>>

NextPair == ThrTick \/ ThrReset

SpecPair == InitPair /\ [][NextPair]_vars

\* C38: on every tick of the pair, the sensor invokes update() exactly when
\* the action does, whether the agent is valid or not and whatever the
\* interval.
C38_ActionLikeSensor ==
    [][(Len(calls') > 0 /\ calls'[1].op = "tick") =>
          fired'["sensor"].refused = fired'["action"].refused]_vars

---------------------------------------------------------------------------
(* The legacy keyed CoreAI_BehaviorSelector, ticked by the legacy          *)
(* OngoingPlayer, which does not await update().  current holds the        *)
(* selector's fields, pending the updates suspended in their waits, chosen  *)
(* the kind and target the last update() resolved, and watch the kind and   *)
(* target of the last command sequence an update() started.  Positions     *)
(* are counted in halves of a unit, so POS_EPSILON = 0.5 is 1.             *)

\* update() with the weights of CoreAI_BaseSoldier.default(): the selector
\* after it, the commands it issued, the continuation it left suspended,
\* and the kind and target it resolved
BehaviorSelector_update(sel, m, w) ==
    LET weights == [isInBattle |-> 100, vehicleToDrive |-> 90,
                    closestEnemy |-> 80, capturePoint |-> 70,
                    arrivedPos |-> 60, roamPos |-> 30]
        set == {k \in DOMAIN weights : Memory_has(m, k)}
        winner == CHOOSE k \in set : \A j \in set : weights[k] >= weights[j]
        behavior == IF winner = "isInBattle" THEN "battlefield"
                    ELSE IF winner = "arrivedPos" THEN "defend"
                    ELSE "moveto"
        pos == CASE winner = "closestEnemy" ->
                      w.playerPos[Memory_get(m, "closestEnemy")[2]]
                 [] winner = "vehicleToDrive" ->
                      w.vehiclePos[Memory_get(m, "vehicleToDrive")[2]]
                 [] winner = "capturePoint" -> Null
                 [] OTHER -> Memory_get(m, winner)
        quiet == [sel |-> sel, log |-> <<>>, wait |-> <<>>,
                  kind |-> "none", pos |-> Null]
    IN  IF set = {} THEN quiet
        ELSE IF ~w.valid THEN quiet
        ELSE IF behavior = "battlefield"
        THEN IF sel.current = "battlefield"
             THEN [quiet EXCEPT !.kind = behavior]
             ELSE [quiet EXCEPT
                      !.kind = behavior,
                      !.log = <<Log("AIBattlefieldBehavior", "", 0)>>,
                      !.sel = [current |-> behavior, lastMoveToPos |-> Null,
                               lastDefendPos |-> Null]]
        ELSE IF ~Truthy(pos) THEN quiet
        ELSE IF behavior = "defend"
        THEN IF /\ sel.current = "defend" /\ Truthy(sel.lastDefendPos)
                /\ DistanceBetween(sel.lastDefendPos, pos) <= 1
             THEN [quiet EXCEPT !.kind = behavior, !.pos = pos]
             ELSE [quiet EXCEPT
                      !.kind = behavior, !.pos = pos,
                      !.log = <<Log("AIDefendPositionBehavior", "", pos[2])>>,
                      !.sel = [sel EXCEPT !.current = behavior,
                                          !.lastDefendPos = pos,
                                          !.lastMoveToPos = Null]]
        ELSE IF /\ sel.current = "moveto" /\ Truthy(sel.lastMoveToPos)
                /\ DistanceBetween(sel.lastMoveToPos, pos) <= 1
        THEN [quiet EXCEPT !.kind = behavior, !.pos = pos]
        ELSE IF w.inVehicle /\ w.seat = 0
        THEN [quiet EXCEPT
                 !.kind = behavior, !.pos = pos,
                 !.log = <<Log("ForcePlayerExitVehicle", "", 0)>>,
                 !.wait = <<[pos |-> pos]>>]
        ELSE [quiet EXCEPT
                 !.kind = behavior, !.pos = pos,
                 !.log = <<Log(IF winner = "vehicleToDrive"
                               THEN "AIMoveToBehavior"
                               ELSE "AIValidatedMoveToBehavior", "", pos[2])>>,
                 !.sel = [current |-> behavior, lastMoveToPos |-> pos,
                          lastDefendPos |-> Null]]

InitKeyed ==
    /\ current = [current |-> "none", lastMoveToPos |-> Null,
                  lastDefendPos |-> Null]
    /\ memory = NewMemory
    /\ pending = <<>>
    /\ chosen = [kind |-> "none", pos |-> Null]
    /\ watch = [kind |-> "none", pos |-> Null]
    /\ calls = <<>>
    /\ clock = 0 /\ nextId = 0
    /\ units = <<>> /\ fired = <<>> /\ profile = <<>>
    /\ sensors = <<>> /\ life = <<>>

\* a tick of the legacy OngoingPlayer: the sensors leave one key set (or
\* none), then update() is called and not awaited; the agent is invalid,
\* on foot, or driving
KeyedTick ==
    \E w \in {InvalidWorld, BaseWorld, [inVehicle |-> TRUE] @@ BaseWorld} :
      \E m \in {NewMemory} \cup
               {Memory_set(NewMemory, "roamPos", PosV(p), Undefined) :
                    p \in {4, 5, 8}}
               \cup {Memory_set(NewMemory, "arrivedPos", PosV(p), Undefined) :
                         p \in {4, 8}}
               \cup {Memory_set(NewMemory, "isInBattle", True, Undefined),
                     Memory_set(NewMemory, "closestEnemy", PlayerV(1),
                                Undefined),
                     Memory_set(NewMemory, "vehicleToDrive", VehicleV(1),
                                Undefined)} :
        LET r == BehaviorSelector_update(current, m, w)
        IN  /\ Len(pending) + Len(r.wait) <= MaxInst
            /\ memory' = m
            /\ current' = r.sel
            /\ pending' = pending \o r.wait
            /\ calls' = <<Log("BehaviorSelector.update",
                              IF w.valid THEN "valid" ELSE "invalid", 0)>>
                        \o r.log
            /\ chosen' = [kind |-> r.kind, pos |-> r.pos]
            /\ watch' = IF r.log = <<>> THEN watch
                        ELSE [kind |-> r.kind, pos |-> r.pos]
            /\ UNCHANGED <<clock, units, fired, profile, sensors, nextId,
                           life>>

\* the oldest suspended update() wakes from its waits: it seats the agent
\* again, issues the defend command and records the move as started
KeyedResume ==
    /\ Len(pending) > 0
    /\ pending' = Tail(pending)
    /\ calls' = <<Log("resume", "BehaviorSelector.update", 0),
                  Log("ForcePlayerToSeat", "", 0),
                  Log("AIDefendPositionBehavior", "", pending[1].pos[2])>>
    /\ current' = [current |-> "moveto", lastMoveToPos |-> pending[1].pos,
                   lastDefendPos |-> Null]
    /\ UNCHANGED <<clock, memory, watch, units, fired, chosen, profile,
                   sensors, nextId, life>>

NextKeyed == KeyedTick \/ KeyedResume

SpecKeyed == InitKeyed /\ [][NextKeyed]_vars

\* C39: an update() that resolves the kind of behavior of the command
\* sequence the selector last started, and for a defend or a move a target
\* within 0.5 of that sequence's target, issues no engine command, also
\* while an earlier update() is suspended in its waits.
C39_NoRestart ==
    [][(/\ Len(calls') > 0 /\ calls'[1][1] = "BehaviorSelector.update"
        /\ chosen'.kind # "none"
        /\ chosen'.kind = watch.kind
        /\ \/ chosen'.kind = "battlefield"
           \/ DistanceBetween(watch.pos, chosen'.pos) <= 1) =>
          \A i \in 1 .. Len(calls') : calls'[i][1] \notin EngineCommands]_vars

==========================================================================
